---- MODULE Spec2Model ----
(***************************************************************************)
(* Load-test harness of vllm-delivery-template/benchmark/load_test.py:     *)
(* send_request (one streaming request, measured from its line stream) and *)
(* run_concurrent_test (warmup burst, then N requests behind a semaphore   *)
(* of C slots).                                                            *)
(*                                                                         *)
(* Python values are modelled as follows.  Optional[x] is a sequence of    *)
(* length at most one (None is << >>).  A str is a TLA+ string.  A JSON    *)
(* document is a record whose tag t is "null", "num", "str", "list" or     *)
(* "obj", with its value in the field n, s, l or o.  time.time() is an     *)
(* integer number of seconds.  A float that is a quotient is kept as the   *)
(* pair [num, den].  An expression that may raise evaluates to [exc, val]: *)
(* exc is the exception raised, or None.                                   *)
(***************************************************************************)
EXTENDS Integers, Sequences, FiniteSets, TLC

VARIABLES
    sr_call,        \* send_request: the arguments and the server's behaviour
    sr_ret,         \* send_request: what the call produced (None before it)
    config,         \* run_concurrent_test: the "load" section of the config
    pc,             \* run_concurrent_test: position of the driver coroutine
    now,            \* the wall clock, as read by time.time()
    semaphore,      \* free slots of asyncio.Semaphore(concurrency)
    clients,        \* httpx.AsyncClient instances: client id -> "open"/"closed"
    warmup_tasks,   \* warmup coroutines: index -> position
    tasks,          \* bounded_request coroutines: index -> position and record
    start_time,     \* line 222
    all_metrics,    \* line 236: what gather returned
    result,         \* the TestResult returned (None until the return)
    exit_status,    \* main: the status given to sys.exit (None before it)
    pm_call,        \* collect_metrics_if_enabled: arguments and backend
    pm_ret,         \* collect_metrics_if_enabled: what the call produced
    calc_call,      \* calculator.py: the function called and its arguments
    calc_ret,       \* calculator.py: what the call produced
    gp_call,        \* generate_prompt: the configuration it is called with
    gp_frame,       \* generate_prompt: its position and its local variables
    gp_ret,         \* generate_prompt: what the call produced
    db,             \* feishu-study-bot: the tables of the database session
    ci_ret,         \* CheckInService: the last call and what it produced
    ci_hist         \* CheckInService: the create_checkin calls that returned

vars == <<sr_call, sr_ret, config, pc, now, semaphore, clients,
          warmup_tasks, tasks, start_time, all_metrics, result, exit_status,
          pm_call, pm_ret, calc_call, calc_ret, gp_call, gp_frame, gp_ret,
          db, ci_ret, ci_hist>>

driver_vars == <<config, pc, now, semaphore, clients, warmup_tasks, tasks,
                 start_time, all_metrics, result, exit_status>>

\* generate_prompt alone
prompt_vars == <<gp_call, gp_frame, gp_ret>>

\* the check-in service of feishu-study-bot
checkin_vars == <<db, ci_ret, ci_hist>>

\* the calls of collector.py and calculator.py, generate_prompt alone and
\* the check-in service
rest_vars == <<pm_call, pm_ret, calc_call, calc_ret, prompt_vars, checkin_vars>>

----------------------------------------------------------------------------
(* Bounds *)

MaxLines == 2          \* longest line stream a server sends
MaxClock == 3          \* send_request alone: the clock reads 1..MaxClock
MaxNow == 2            \* a run: the clock reads 1..MaxNow
MaxRequests == 2       \* largest num_requests
MaxConcurrency == 2    \* largest concurrency
MaxWarmup == 2         \* largest warmup_requests
MaxSamples == 2        \* longest "values" list of a series
MaxValues == 3         \* longest list of measurements
MaxPercentiles == 2    \* longest list of percentiles
MaxInputLength == 40   \* generate_prompt alone: largest input_length
MaxCheckins == 3       \* check-in service: most check-ins in the database

----------------------------------------------------------------------------
(* Python values *)

None == << >>
Some(x) == <<x>>

\* the value of the call variables of a function that is not called
NoCall == << >>

\* generate_prompt is not called on its own
NoPromptCall == gp_call = NoCall /\ gp_frame = NoCall /\ gp_ret = << >>

\* no database session is open
NoDatabase == db = NoCall /\ ci_ret = << >> /\ ci_hist = << >>

Exc(cls, msg) == [cls |-> cls, msg |-> msg]
Ok(v) == [exc |-> None, val |-> v]
Raise(cls, msg) == [exc |-> Some(Exc(cls, msg)), val |-> None]

JNull == [t |-> "null", s |-> "", n |-> 0, l |-> << >>, o |-> << >>]
JNum(n) == [JNull EXCEPT !.t = "num", !.n = n]
JStr(s) == [JNull EXCEPT !.t = "str", !.s = s]
JList(l) == [JNull EXCEPT !.t = "list", !.l = l]
JObj(o) == [JNull EXCEPT !.t = "obj", !.o = o]
EmptyDict == JObj(<< >>)

\* bool(x) of a JSON value
Truthy(j) ==
    CASE j.t = "null" -> FALSE
      [] j.t = "num" -> j.n # 0
      [] j.t = "str" -> j.s # ""
      [] j.t = "list" -> Len(j.l) > 0
      [] j.t = "obj" -> DOMAIN j.o # {}

PyTypeName(j) ==
    CASE j.t = "null" -> "NoneType"
      [] j.t = "num" -> "int"
      [] j.t = "str" -> "str"
      [] j.t = "list" -> "list"
      [] j.t = "obj" -> "dict"

\* x.get(key, default)
DictGet(x, key, default) ==
    IF x.t = "obj"
    THEN Ok(IF key \in DOMAIN x.o THEN x.o[key] ELSE default)
    ELSE Raise("AttributeError",
               "'" \o PyTypeName(x) \o "' object has no attribute 'get'")

\* x[0]
Index0(x) ==
    CASE x.t = "list" ->
            IF Len(x.l) = 0 THEN Raise("IndexError", "list index out of range")
            ELSE Ok(x.l[1])
      [] x.t = "str" ->
            IF x.s = "" THEN Raise("IndexError", "string index out of range")
            ELSE Ok(JStr(SubSeq(x.s, 1, 1)))
      [] x.t = "obj" -> Raise("KeyError", "0")
      [] OTHER -> Raise("TypeError",
                        "'" \o PyTypeName(x) \o "' object is not subscriptable")

\* json.loads(data): data is the text after the "data: " prefix, given as
\* [k, val]: k = "json" when the text is the JSON document val, "bad" when
\* it is no JSON document, "done" when it is the literal [DONE] (which is
\* no JSON document either).
json_loads(data) ==
    IF data.k = "json" THEN Ok(data.val)
    ELSE Raise("JSONDecodeError", "Expecting value: line 1 column 1 (char 0)")

\* r, or f applied to its value when r raised nothing
Then(r, f(_)) == IF r.exc # None THEN r ELSE f(r.val)

\* "".join(output_text)
RECURSIVE StrJoin(_, _)
StrJoin(l, i) ==
    IF i > Len(l) THEN Ok("")
    ELSE IF l[i].t # "str"
         THEN Raise("TypeError", "sequence item " \o ToString(i - 1)
                    \o ": expected str instance, " \o PyTypeName(l[i])
                    \o " found")
         ELSE Then(StrJoin(l, i + 1), LAMBDA rest : Ok(l[i].s \o rest))

\* the classes of the exceptions above and of httpx's transport errors are
\* all subclasses of Exception: "except Exception" catches each of them
ExceptionSubclasses ==
    {"Exception", "ConnectError", "ConnectTimeout", "ReadTimeout",
     "ReadError", "JSONDecodeError", "IndexError", "AttributeError",
     "TypeError", "KeyError", "ValueError", "HTTPStatusError"}

----------------------------------------------------------------------------
(* send_request, load_test.py lines 117-197 *)

\* RequestMetrics(request_id=request_id, start_time=time.time(), end_time=0.0)
RequestMetrics(request_id, t) ==
    [request_id |-> request_id, start_time |-> t, end_time |-> 0,
     ttft_ms |-> 0, e2e_latency_ms |-> 0, output_tokens |-> 0,
     input_tokens |-> 0, tokens_per_second |-> [num |-> 0, den |-> 1],
     error |-> None]

\* lines 168-170: the content of one chunk
ChunkContent(data) ==
    Then(json_loads(data), LAMBDA chunk :
    Then(DictGet(chunk, "choices", JList(<<EmptyDict>>)), LAMBDA choices :
    Then(Index0(choices), LAMBDA first :
    Then(DictGet(first, "delta", EmptyDict), LAMBDA delta :
         DictGet(delta, "content", JStr(""))))))

\* mutant of InnerExcept: no try around the parsing of a chunk
InnerExceptNothing(e) == FALSE

\* line 176: except json.JSONDecodeError
InnerExcept(e) == e.cls = "JSONDecodeError"

\* mutant of OuterExcept: "except httpx.TransportError"
OuterExceptTransport(e) ==
    e.cls \in {"ConnectError", "ConnectTimeout", "ReadTimeout", "ReadError"}

\* line 193: except Exception
OuterExcept(e) == e.cls \in ExceptionSubclasses

\* mutant of OnChunk: the time is taken at every chunk with content
OnChunkEveryContent(st, content, clock) ==
    IF content.exc # None
    THEN IF InnerExcept(content.exc[1])
         THEN [exc |-> None, brk |-> FALSE, st |-> st]
         ELSE [exc |-> content.exc, brk |-> FALSE, st |-> st]
    ELSE IF Truthy(content.val)
         THEN [exc |-> None, brk |-> FALSE,
               st |-> [first_token_time |-> Some(clock[st.reads + 1]),
                       output_text |-> Append(st.output_text, content.val),
                       reads |-> st.reads + 1]]
         ELSE [exc |-> None, brk |-> FALSE,
               st |-> [st EXCEPT
                         !.output_text = Append(st.output_text, content.val)]]

\* lines 172-177: what the loop body does with the content of a chunk, or
\* with the exception its parsing raised.  st is the function's local
\* state: first_token_time, output_text and reads, the number of
\* time.time() calls made so far.  brk: the loop was left by break.
OnChunk(st, content, clock) ==
    IF content.exc # None
    THEN IF InnerExcept(content.exc[1])
         THEN [exc |-> None, brk |-> FALSE, st |-> st]
         ELSE [exc |-> content.exc, brk |-> FALSE, st |-> st]
    ELSE IF Truthy(content.val) /\ st.first_token_time = None
         THEN [exc |-> None, brk |-> FALSE,
               st |-> [first_token_time |-> Some(clock[st.reads + 1]),
                       output_text |-> Append(st.output_text, content.val),
                       reads |-> st.reads + 1]]
         ELSE [exc |-> None, brk |-> FALSE,
               st |-> [st EXCEPT
                         !.output_text = Append(st.output_text, content.val)]]

\* mutant of LoopBody: no break at the [DONE] line
LoopBodyNoBreak(st, line, clock) ==
    IF ~line.prefix THEN [exc |-> None, brk |-> FALSE, st |-> st]
    ELSE OnChunk(st, ChunkContent(line.data), clock)

\* lines 162-177: the body of the loop for one line
LoopBody(st, line, clock) ==
    IF ~line.prefix THEN [exc |-> None, brk |-> FALSE, st |-> st]
    ELSE IF line.data.k = "done" THEN [exc |-> None, brk |-> TRUE, st |-> st]
    ELSE OnChunk(st, ChunkContent(line.data), clock)

\* lines 161-177: async for line in response.aiter_lines().  An event is a
\* line, or the exception the transport raises instead of the next line.
\* AfterLine: onwards from the outcome r of the body for line i.
RECURSIVE AiterLines(_, _, _, _)
RECURSIVE AfterLine(_, _, _, _)
AiterLines(events, i, st, clock) ==
    IF i > Len(events) THEN [exc |-> None, st |-> st]
    ELSE IF events[i].ev = "raise" THEN [exc |-> Some(events[i].exc), st |-> st]
    ELSE AfterLine(events, i, LoopBody(st, events[i], clock), clock)
AfterLine(events, i, r, clock) ==
    IF r.exc # None \/ r.brk THEN [exc |-> r.exc, st |-> r.st]
    ELSE AiterLines(events, i + 1, r.st, clock)

\* lines 156-159: the response of client.stream(...), or the exception
Connect(server) ==
    IF server.connect # None THEN [exc |-> server.connect, val |-> None]
    ELSE IF server.status_code # 200
    THEN Raise("Exception", "HTTP " \o ToString(server.status_code) \o ": "
                            \o server.body)
    ELSE Ok(server.events)

\* mutant of Measure: the time to the first token is taken from
\* metrics.start_time (line 147) and not from start (line 152)
MeasureFromStartTime(metrics, prompt, first_token_time, start, output_content, end) ==
    [metrics EXCEPT
       !.input_tokens = Len(prompt) \div 4,
       !.output_tokens = Len(output_content) \div 4,
       !.ttft_ms = IF first_token_time # None /\ first_token_time[1] # 0
                   THEN (first_token_time[1] - metrics.start_time) * 1000
                   ELSE 0,
       !.e2e_latency_ms = (end - start) * 1000,
       !.end_time = end,
       !.tokens_per_second =
           IF (end - start) * 1000 > 0
           THEN [num |-> (Len(output_content) \div 4) * 1000,
                 den |-> (end - start) * 1000]
           ELSE metrics.tokens_per_second]

\* lines 183-191: the record of a stream that was read to its end
Measure(metrics, prompt, first_token_time, start, output_content, end) ==
    [metrics EXCEPT
       !.input_tokens = Len(prompt) \div 4,
       !.output_tokens = Len(output_content) \div 4,
       !.ttft_ms = IF first_token_time # None /\ first_token_time[1] # 0
                   THEN (first_token_time[1] - start) * 1000 ELSE 0,
       !.e2e_latency_ms = (end - start) * 1000,
       !.end_time = end,
       !.tokens_per_second =
           IF (end - start) * 1000 > 0
           THEN [num |-> (Len(output_content) \div 4) * 1000,
                 den |-> (end - start) * 1000]
           ELSE metrics.tokens_per_second]

\* the local state at line 154
Locals == [first_token_time |-> None, output_text |-> << >>, reads |-> 2]

\* lines 180-191: from the joined output (or the exception of the join) on
AfterJoin(metrics, prompt, st, output_content, clock) ==
    IF output_content.exc # None
    THEN [exc |-> output_content.exc, val |-> metrics, reads |-> st.reads + 1]
    ELSE [exc |-> None,
          val |-> Measure(metrics, prompt, st.first_token_time, clock[2],
                          output_content.val, clock[st.reads + 1]),
          reads |-> st.reads + 1]

\* lines 179-191: from the end of the loop (or its exception) on; line 179
\* reads the clock before line 180 joins
AfterLoop(metrics, prompt, it, clock) ==
    IF it.exc # None
    THEN [exc |-> it.exc, val |-> metrics, reads |-> it.st.reads]
    ELSE AfterJoin(metrics, prompt, it.st, StrJoin(it.st.output_text, 1), clock)

\* lines 157-191: from the response (or the exception of the connection) on
AfterConnect(metrics, prompt, response, clock) ==
    IF response.exc # None
    THEN [exc |-> response.exc, val |-> metrics, reads |-> 2]
    ELSE AfterLoop(metrics, prompt,
                   AiterLines(response.val, 1, Locals, clock), clock)

\* lines 152-191: the try block.  val is the record when the block is left;
\* reads is the number of time.time() calls made by then.
TryBlock(metrics, prompt, server, clock) ==
    AfterConnect(metrics, prompt, Connect(server), clock)

\* mutant of Handler: the handler also records the latency up to the failure
HandlerWithLatency(metrics, e, t) ==
    [metrics EXCEPT !.error = Some(e.msg), !.end_time = t,
                    !.e2e_latency_ms = (t - metrics.start_time) * 1000]

\* lines 193-195: the handler
Handler(metrics, e, t) ==
    [metrics EXCEPT !.error = Some(e.msg), !.end_time = t]

\* lines 151-197: the try statement and the return, from the outcome of
\* the try block on
TryExcept(try, clock) ==
    IF try.exc = None THEN Ok(try.val)
    ELSE IF OuterExcept(try.exc[1])
         THEN Ok(Handler(try.val, try.exc[1], clock[try.reads + 1]))
         ELSE [exc |-> try.exc, val |-> None]

\* send_request(client, request_id, prompt, config) against a server, with
\* clock the successive readings of time.time(): the RequestMetrics it
\* returns (val), or the exception it raises (exc)
send_request(request_id, prompt, server, clock) ==
    TryExcept(TryBlock(RequestMetrics(request_id, clock[1]), prompt, server,
                       clock), clock)

----------------------------------------------------------------------------
(* The servers send_request is run against *)

\* {"choices": [{"delta": {"content": c}}]}
Chunk(c) ==
    JObj([choices |-> JList(<<JObj([delta |-> JObj([content |-> c])])>>)])

JsonData(val) == [k |-> "json", val |-> val]
DoneData == [k |-> "done", val |-> JNull]
BadData == [k |-> "bad", val |-> JNull]

Payloads ==
    {DoneData, BadData,
     JsonData(Chunk(JStr(""))), JsonData(Chunk(JStr("a"))),
     JsonData(Chunk(JStr("bcde"))),
     JsonData(Chunk(JNull)),                                 \* content: null
     JsonData(EmptyDict),                                    \* no choices
     JsonData(JObj([choices |-> JList(<<EmptyDict>>)])),     \* no delta
     JsonData(JObj([choices |-> JList(<<JObj([delta |-> EmptyDict])>>)])),
     JsonData(JObj([choices |-> JList(<< >>)])),             \* choices: []
     JsonData(JNum(5))}                                      \* not an object

Line(prefix, data) ==
    [ev |-> "line", prefix |-> prefix, data |-> data, exc |-> Exc("", "")]
Failure(cls, msg) ==
    [ev |-> "raise", prefix |-> FALSE, data |-> BadData, exc |-> Exc(cls, msg)]

\* lines with the "data: " prefix, lines without it, and the exceptions
\* the transport raises in the middle of a stream (str() of a timeout of
\* httpx may be empty)
Events ==
    {Line(TRUE, d) : d \in Payloads}
    \cup {Line(FALSE, DoneData), Line(FALSE, JsonData(Chunk(JStr("a"))))}
    \cup {Failure("ReadTimeout", ""), Failure("ReadError", "peer closed")}

RECURSIVE SeqsUpTo(_, _)
SeqsUpTo(S, n) ==
    IF n = 0 THEN {<< >>}
    ELSE LET shorter == SeqsUpTo(S, n - 1)
         IN shorter \cup {Append(q, x) : q \in shorter, x \in S}

Stream(events) ==
    [connect |-> None, status_code |-> 200, body |-> "", events |-> events]
HttpStatus(status_code, body) ==
    [connect |-> None, status_code |-> status_code, body |-> body,
     events |-> << >>]
NoConnection(cls, msg) ==
    [connect |-> Some(Exc(cls, msg)), status_code |-> 0, body |-> "",
     events |-> << >>]

Servers ==
    {Stream(ev) : ev \in SeqsUpTo(Events, MaxLines)}
    \cup {HttpStatus(500, ""), HttpStatus(404, "Not Found")}
    \cup {NoConnection("ConnectError", "All connection attempts failed"),
          NoConnection("ConnectTimeout", "")}

\* the readings of a clock that never goes back, one per time.time() call
\* (lines 147, 152, 173, 179, 195)
Clocks ==
    {c \in [1..5 -> 1..MaxClock] : \A i \in 1..4 : c[i] <= c[i + 1]}

Prompts == {"abc", "abcdefghi"}

----------------------------------------------------------------------------
(* One call of send_request *)

InitSend ==
    /\ sr_call \in [request_id : {"req-0"}, prompt : Prompts,
                    server : Servers, clock : Clocks]
    /\ sr_ret = None
    /\ config = [concurrency |-> 0, num_requests |-> 0, warmup_requests |-> 0]
    /\ pc = "idle"
    /\ now = 1
    /\ semaphore = 0
    /\ clients = << >>
    /\ warmup_tasks = << >>
    /\ tasks = << >>
    /\ start_time = 0
    /\ all_metrics = << >>
    /\ result = None
    /\ exit_status = None
    /\ pm_call = NoCall
    /\ pm_ret = None
    /\ calc_call = NoCall
    /\ calc_ret = None
    /\ NoPromptCall
    /\ NoDatabase

SendRequest ==
    /\ pc = "idle"
    /\ sr_ret = None
    /\ sr_ret' = Some(send_request(sr_call.request_id, sr_call.prompt,
                                   sr_call.server, sr_call.clock))
    /\ UNCHANGED <<sr_call, driver_vars, rest_vars>>

NextSend == SendRequest

SpecSend == InitSend /\ [][NextSend]_vars

\* the output buffer of the call, "".join(output_text), when the stream was
\* read to its end
OutputContent(call) ==
    StrJoin(AiterLines(call.server.events, 1, Locals, call.clock).st.output_text,
            1).val

----------------------------------------------------------------------------
(* run_concurrent_test, load_test.py lines 200-271 *)

\* the servers a request of a run may meet: one that streams an answer,
\* one that answers 500, one that stalls after the first chunk until the
\* per-request timeout fires (with the empty and with a non-empty message),
\* one that drops the connection
DriverServers ==
    {Stream(<<Line(TRUE, JsonData(Chunk(JStr("bcde")))), Line(TRUE, DoneData)>>),
     HttpStatus(500, ""),
     Stream(<<Line(TRUE, JsonData(Chunk(JStr("a")))), Failure("ReadTimeout", "")>>),
     Stream(<<Failure("ReadTimeout", "timed out")>>),
     Stream(<<Failure("ReadError", "peer closed")>>)}

\* the prompt of lines 215 and 231
DriverPrompt == "abcdefghi"

\* the time.time() readings of a request that entered send_request at time
\* entered, got its first token (if the stream has one) at time first and
\* left the function at time left
DriverClock(server, entered, first, left) ==
    IF /\ server.connect = None
       /\ server.status_code = 200
       /\ AiterLines(server.events, 1, Locals,
                     <<entered, entered, first>>).st.reads = 3
    THEN <<entered, entered, first, left, left>>
    ELSE <<entered, entered, left, left, left>>

Indices(n) == 0 .. (n - 1)

\* a coroutine of gather: its position, the time it entered send_request,
\* the client it was given, the record send_request returned and (kept for
\* the properties only) the server behaviour it met
NewTask ==
    [pc |-> "created", entered |-> 0, client |-> 0, metrics |-> None,
     server |-> None]

\* mutant of Settled: a record with an error is raised by the coroutine
SettledOrRaise(task, server, r) ==
    IF r.exc = None /\ r.val.error = None
    THEN [task EXCEPT !.pc = "done", !.metrics = Some(r.val),
                      !.server = Some(server)]
    ELSE [task EXCEPT !.pc = "raised", !.server = Some(server)]

\* the coroutine whose send_request produced r: it is done with the record
\* returned, or the exception leaves it
Settled(task, server, r) ==
    IF r.exc = None
    THEN [task EXCEPT !.pc = "done", !.metrics = Some(r.val),
                      !.server = Some(server)]
    ELSE [task EXCEPT !.pc = "raised", !.server = Some(server)]

\* bool(m.error)
HasError(m) == m.error # None /\ m.error[1] # ""

\* mutant of TestResult: failed is taken with "m.error is not None"
TestResultIsNotNone(cfg, metrics, duration) ==
    [duration_seconds |-> duration,
     total_requests |-> cfg.num_requests,
     successful_requests |-> Len(SelectSeq(metrics, LAMBDA m : ~HasError(m))),
     failed_requests |-> Len(SelectSeq(metrics, LAMBDA m : m.error # None)),
     throughput_rps |->
         IF duration > 0
         THEN [num |-> Len(SelectSeq(metrics, LAMBDA m : ~HasError(m))),
               den |-> duration]
         ELSE [num |-> 0, den |-> 1],
     request_metrics |-> SelectSeq(metrics, LAMBDA m : ~HasError(m))]

\* lines 241-257
TestResult(cfg, metrics, duration) ==
    LET successful == SelectSeq(metrics, LAMBDA m : ~HasError(m))
        failed == SelectSeq(metrics, LAMBDA m : HasError(m))
    IN [duration_seconds |-> duration,
        total_requests |-> cfg.num_requests,
        successful_requests |-> Len(successful),
        failed_requests |-> Len(failed),
        throughput_rps |-> IF duration > 0
                           THEN [num |-> Len(successful), den |-> duration]
                           ELSE [num |-> 0, den |-> 1],
        request_metrics |-> successful]

Init ==
    /\ sr_call = [request_id |-> "req-0", prompt |-> DriverPrompt,
                  server |-> HttpStatus(500, ""), clock |-> [i \in 1..5 |-> 1]]
    /\ sr_ret = None
    /\ config \in [concurrency : 0..MaxConcurrency,
                   num_requests : 0..MaxRequests,
                   warmup_requests : 0..MaxWarmup]
    /\ pc = "start"
    /\ now = 1
    /\ semaphore = 0
    /\ clients = << >>
    /\ warmup_tasks = << >>
    /\ tasks = << >>
    /\ start_time = 0
    /\ all_metrics = << >>
    /\ result = None
    /\ exit_status = None
    /\ pm_call = NoCall
    /\ pm_ret = None
    /\ calc_call = NoCall
    /\ calc_ret = None
    /\ NoPromptCall
    /\ NoDatabase

\* time passes
Tick ==
    /\ pc # "idle"
    /\ now < MaxNow
    /\ now' = now + 1
    /\ UNCHANGED <<rest_vars, exit_status, sr_call, sr_ret,
                   config, pc, semaphore, clients,
                   warmup_tasks, tasks, start_time, all_metrics, result>>

\* lines 210-218: the warmup client is opened and the coroutines are made
\* and handed to gather
StartWarmup ==
    /\ pc = "start"
    /\ config.warmup_requests > 0
    /\ clients' = Append(clients, "open")
    /\ warmup_tasks' = [i \in Indices(config.warmup_requests) |-> NewTask]
    /\ pc' = "warmup"
    /\ UNCHANGED <<rest_vars, exit_status, sr_call, sr_ret,
                   config, now, semaphore, tasks, start_time,
                   all_metrics, result>>

\* line 210: no warmup
SkipWarmup ==
    /\ pc = "start"
    /\ config.warmup_requests <= 0
    /\ pc' = "main"
    /\ UNCHANGED <<rest_vars, exit_status, sr_call, sr_ret,
                   config, now, semaphore, clients,
                   warmup_tasks, tasks, start_time, all_metrics, result>>

\* mutant of WarmupSend: a warmup request waits while as many warmup
\* requests as the configured concurrency are in flight
WarmupSendGated(i) ==
    /\ pc = "warmup"
    /\ warmup_tasks[i].pc = "created"
    /\ Cardinality({j \in DOMAIN warmup_tasks : warmup_tasks[j].pc = "sent"})
           < config.concurrency
    /\ warmup_tasks' = [warmup_tasks EXCEPT
                          ![i] = [@ EXCEPT !.pc = "sent", !.entered = now,
                                           !.client = Len(clients)]]
    /\ UNCHANGED <<rest_vars, exit_status, sr_call, sr_ret, config, pc, now,
                   semaphore, clients, tasks, start_time, all_metrics, result>>

\* line 216 run by gather: warmup coroutine i runs send_request up to its
\* first await (the connection); no gate in front of it
WarmupSend(i) ==
    /\ pc = "warmup"
    /\ warmup_tasks[i].pc = "created"
    /\ warmup_tasks' = [warmup_tasks EXCEPT
                          ![i] = [@ EXCEPT !.pc = "sent", !.entered = now,
                                           !.client = Len(clients)]]
    /\ UNCHANGED <<rest_vars, exit_status, sr_call, sr_ret,
                   config, pc, now, semaphore, clients,
                   tasks, start_time, all_metrics, result>>

\* line 218: nothing is bound to what gather returns for the warmup, so
\* the record of a settled warmup coroutine is kept nowhere
Discarded(task) == [NewTask EXCEPT !.pc = task.pc, !.client = task.client]

\* warmup coroutine i finishes send_request; an exception leaving it would
\* leave gather, the async with (closing the client) and the function
WarmupReturn(i) ==
    /\ pc = "warmup"
    /\ warmup_tasks[i].pc = "sent"
    /\ \E server \in DriverServers, first \in warmup_tasks[i].entered .. now :
         warmup_tasks' = [warmup_tasks EXCEPT ![i] =
             Discarded(Settled(@, server,
                     send_request("warmup-" \o ToString(i), DriverPrompt,
                        server, DriverClock(server, @.entered, first, now))))]
    /\ IF warmup_tasks'[i].pc = "raised"
       THEN /\ clients' = [clients EXCEPT ![Len(clients)] = "closed"]
            /\ pc' = "raised"
       ELSE UNCHANGED <<pc, clients>>
    /\ UNCHANGED <<rest_vars, exit_status, sr_call, sr_ret,
                   config, now, semaphore, tasks, start_time,
                   all_metrics, result>>

\* mutant of WarmupDone: the async with is left when the first warmup
\* coroutine has returned
WarmupDoneFirstCompleted ==
    /\ pc = "warmup"
    /\ \E i \in DOMAIN warmup_tasks : warmup_tasks[i].pc = "done"
    /\ clients' = [clients EXCEPT ![Len(clients)] = "closed"]
    /\ pc' = "main"
    /\ UNCHANGED <<rest_vars, exit_status, sr_call, sr_ret, config, now,
                   semaphore, warmup_tasks, tasks, start_time, all_metrics,
                   result>>

\* lines 218-219: gather returns when every warmup coroutine has; what it
\* returns is dropped (nothing keeps the records) and the async with closes
\* the client
WarmupDone ==
    /\ pc = "warmup"
    /\ \A i \in DOMAIN warmup_tasks : warmup_tasks[i].pc = "done"
    /\ warmup_tasks' = [i \in DOMAIN warmup_tasks |->
                          [NewTask EXCEPT !.pc = "done",
                                          !.client = warmup_tasks[i].client]]
    /\ clients' = [clients EXCEPT ![Len(clients)] = "closed"]
    /\ pc' = "main"
    /\ UNCHANGED <<rest_vars, exit_status, sr_call, sr_ret,
                   config, now, semaphore, tasks, start_time,
                   all_metrics, result>>

\* lines 222-236: the clock is read, the client and the semaphore are made,
\* the coroutines are made and handed to gather
StartMain ==
    /\ pc = "main"
    /\ start_time' = now
    /\ clients' = Append(clients, "open")
    /\ semaphore' = config.concurrency
    /\ tasks' = [i \in Indices(config.num_requests) |-> NewTask]
    /\ pc' = "gather"
    /\ UNCHANGED <<rest_vars, exit_status, sr_call, sr_ret,
                   config, now, warmup_tasks, all_metrics,
                   result>>

\* mutant of Acquire: bounded_request opens a client of its own
AcquireOwnClient(i) ==
    /\ pc = "gather"
    /\ tasks[i].pc = "created"
    /\ \A j \in DOMAIN tasks : j < i => tasks[j].pc # "created"
    /\ semaphore > 0
    /\ semaphore' = semaphore - 1
    /\ clients' = Append(clients, "open")
    /\ tasks' = [tasks EXCEPT ![i] = [@ EXCEPT !.pc = "sent", !.entered = now,
                                               !.client = Len(clients) + 1]]
    /\ UNCHANGED <<rest_vars, exit_status, sr_call, sr_ret, config, pc, now,
                   warmup_tasks, start_time, all_metrics, result>>

\* mutant of Acquire: the coroutine does not wait for a free slot
AcquireNoWait(i) ==
    /\ pc = "gather"
    /\ tasks[i].pc = "created"
    /\ \A j \in DOMAIN tasks : j < i => tasks[j].pc # "created"
    /\ semaphore' = semaphore - 1
    /\ tasks' = [tasks EXCEPT ![i] = [@ EXCEPT !.pc = "sent", !.entered = now,
                                               !.client = Len(clients)]]
    /\ UNCHANGED <<rest_vars, exit_status, sr_call, sr_ret,
                   config, pc, now, clients, warmup_tasks,
                   start_time, all_metrics, result>>

\* mutant of Acquire: the last slot of the semaphore is never given out
AcquireLastSlotKept(i) ==
    /\ pc = "gather"
    /\ tasks[i].pc = "created"
    /\ \A j \in DOMAIN tasks : j < i => tasks[j].pc # "created"
    /\ semaphore > 1
    /\ semaphore' = semaphore - 1
    /\ tasks' = [tasks EXCEPT ![i] = [@ EXCEPT !.pc = "sent", !.entered = now,
                                               !.client = Len(clients)]]
    /\ UNCHANGED <<rest_vars, exit_status, sr_call, sr_ret, config, pc, now,
                   clients, warmup_tasks, start_time, all_metrics, result>>

\* lines 230-232: bounded_request(i) gets a slot of the semaphore and runs
\* send_request up to its first await.  gather starts the coroutines in
\* index order and the semaphore wakes its waiters in arrival order.
Acquire(i) ==
    /\ pc = "gather"
    /\ tasks[i].pc = "created"
    /\ \A j \in DOMAIN tasks : j < i => tasks[j].pc # "created"
    /\ semaphore > 0
    /\ semaphore' = semaphore - 1
    /\ tasks' = [tasks EXCEPT ![i] = [@ EXCEPT !.pc = "sent", !.entered = now,
                                               !.client = Len(clients)]]
    /\ UNCHANGED <<rest_vars, exit_status, sr_call, sr_ret,
                   config, pc, now, clients, warmup_tasks,
                   start_time, all_metrics, result>>

\* mutant of Release: the slot is given back only by a request that
\* returned a record without an error
ReleaseOnSuccess(value, task) ==
    IF task.pc = "done" /\ task.metrics[1].error = None THEN value + 1
    ELSE value

\* the end of the async with of line 230, left by the coroutine task
\* (by its return or by an exception): semaphore.release()
Release(value, task) == value + 1

\* line 232 and the end of the async with of line 230: send_request of
\* bounded_request(i) finishes and the slot is given back, also when an
\* exception leaves; that exception would leave gather, the async with of
\* line 225 and the function
Return(i) ==
    /\ pc = "gather"
    /\ tasks[i].pc = "sent"
    /\ \E server \in DriverServers, first \in tasks[i].entered .. now :
         tasks' = [tasks EXCEPT ![i] =
             Settled(@, server,
                     send_request("req-" \o ToString(i), DriverPrompt,
                        server, DriverClock(server, @.entered, first, now)))]
    /\ semaphore' = Release(semaphore, tasks'[i])
    /\ IF tasks'[i].pc = "raised"
       THEN /\ clients' = [clients EXCEPT ![Len(clients)] = "closed"]
            /\ pc' = "raised"
       ELSE UNCHANGED <<pc, clients>>
    /\ UNCHANGED <<rest_vars, exit_status, sr_call, sr_ret,
                   config, now, warmup_tasks, start_time,
                   all_metrics, result>>

\* gather of line 236: it returns once every coroutine has returned
GatherReady == \A i \in DOMAIN tasks : tasks[i].pc = "done"

\* mutant of Finish: end_time is read before gather is awaited, when no
\* time has passed since start_time was read
FinishEndTimeBeforeGather ==
    /\ pc = "gather"
    /\ GatherReady
    /\ LET gathered == [k \in 1..config.num_requests |->
                           tasks[k - 1].metrics[1]]
       IN /\ all_metrics' = gathered
          /\ result' = Some(TestResult(config, gathered,
                                       start_time - start_time))
    /\ clients' = [clients EXCEPT ![Len(clients)] = "closed"]
    /\ pc' = "done"
    /\ UNCHANGED <<rest_vars, exit_status, sr_call, sr_ret, config, now,
                   semaphore, warmup_tasks, tasks, start_time>>

\* lines 236-271: gather returns the records in index order, the client is
\* closed, the clock is read and the TestResult is made and returned
Finish ==
    /\ pc = "gather"
    /\ GatherReady
    /\ LET gathered == [k \in 1..config.num_requests |->
                           tasks[k - 1].metrics[1]]
       IN /\ all_metrics' = gathered
          /\ result' = Some(TestResult(config, gathered, now - start_time))
    /\ clients' = [clients EXCEPT ![Len(clients)] = "closed"]
    /\ pc' = "done"
    /\ UNCHANGED <<rest_vars, exit_status, sr_call, sr_ret,
                   config, now, semaphore, warmup_tasks,
                   tasks, start_time>>

\* main, lines 328-331: the configuration file does not exist; nothing runs
ConfigNotFound ==
    /\ pc = "start"
    /\ exit_status = None
    /\ exit_status' = Some(1)
    /\ pc' = "exited"
    /\ UNCHANGED <<rest_vars, sr_call, sr_ret, config, now, semaphore,
                   clients, warmup_tasks, tasks, start_time, all_metrics,
                   result>>

\* mutant of ExitStatus: the status is 0 whenever a request succeeded
ExitStatusAnySuccess(r) == IF r.successful_requests > 0 THEN 0 ELSE 1

\* main, line 392: 0 if result.failed_requests == 0 else 1
ExitStatus(r) == IF r.failed_requests = 0 THEN 0 ELSE 1

\* main, lines 341-392: run_concurrent_test has returned its TestResult,
\* the report is written and the process exits
Exit ==
    /\ pc = "done"
    /\ exit_status' = Some(ExitStatus(result[1]))
    /\ pc' = "exited"
    /\ UNCHANGED <<rest_vars, sr_call, sr_ret, config, now, semaphore,
                   clients, warmup_tasks, tasks, start_time, all_metrics,
                   result>>

Next ==
    \/ Tick
    \/ StartWarmup
    \/ SkipWarmup
    \/ \E i \in DOMAIN warmup_tasks : WarmupSend(i)
    \/ \E i \in DOMAIN warmup_tasks : WarmupReturn(i)
    \/ WarmupDone
    \/ StartMain
    \/ \E i \in DOMAIN tasks : Acquire(i)
    \/ \E i \in DOMAIN tasks : Return(i)
    \/ Finish
    \/ ConfigNotFound
    \/ Exit

Spec == Init /\ [][Next]_vars

\* the scheduling of the measured phase: the event loop runs a coroutine
\* that can go on (a bounded_request that can take a slot, gather once all
\* have returned), and every request that was sent settles in the end
\* (the server answers or the timeout of the client fires)
Fairness ==
    /\ WF_vars(\E i \in DOMAIN tasks : Acquire(i))
    /\ WF_vars(\E i \in DOMAIN tasks : Return(i))
    /\ WF_vars(Finish)

\* a run with the warmup switched off (warmup_requests: 0): the measured
\* phase alone
InitMeasured == Init /\ config.warmup_requests = 0

NextMeasured ==
    \/ Tick
    \/ SkipWarmup
    \/ StartMain
    \/ \E i \in DOMAIN tasks : Acquire(i)
    \/ \E i \in DOMAIN tasks : Return(i)
    \/ Finish
    \/ ConfigNotFound
    \/ Exit

SpecFair == InitMeasured /\ [][NextMeasured]_vars /\ Fairness

----------------------------------------------------------------------------
(* Properties of run_concurrent_test, checked under Spec *)

\* the requests that have entered send_request and not yet returned
InFlight == {i \in DOMAIN tasks : tasks[i].pc = "sent"}

\* the request of coroutine task ran into its per-request timeout
TimedOut(task) ==
    /\ task.server # None
    /\ \E k \in DOMAIN task.server[1].events :
         /\ task.server[1].events[k].ev = "raise"
         /\ task.server[1].events[k].exc.cls = "ReadTimeout"

\* C1: with concurrency C >= 1, at no moment of the measured phase have
\* more than C requests entered send_request without having returned.
C1_InFlightAtMostConcurrency ==
    config.concurrency >= 1 => Cardinality(InFlight) <= config.concurrency

\* C1 happens: C requests are in flight and another one is waiting.
C1_Witness ==
    /\ pc = "gather"
    /\ config.concurrency >= 1
    /\ Cardinality(InFlight) = config.concurrency
    /\ \E i \in DOMAIN tasks : tasks[i].pc = "created"

\* C2: the TestResult returned has successful_requests + failed_requests
\* equal to total_requests, which is the configured num_requests.
C2_SuccessfulPlusFailedIsTotal ==
    result # None =>
        /\ result[1].total_requests = config.num_requests
        /\ result[1].successful_requests + result[1].failed_requests
               = result[1].total_requests

\* C2 happens: a result that counts successes and failures.
C2_Witness ==
    /\ result # None
    /\ result[1].successful_requests >= 1
    /\ result[1].failed_requests >= 1

\* C4: no request's failure aborts the run; the result is made only once
\* every one of the N requests has returned, and the collection gather
\* returned then holds N records, the k-th being the record of request k-1.
C4_AllSettledThenResult ==
    /\ pc # "raised"
    /\ result # None =>
          /\ \A i \in DOMAIN tasks : tasks[i].pc = "done"
          /\ DOMAIN tasks = Indices(config.num_requests)
          /\ Len(all_metrics) = config.num_requests
          /\ \A k \in 1..Len(all_metrics) :
                /\ all_metrics[k] = tasks[k - 1].metrics[1]
                /\ all_metrics[k].request_id = "req-" \o ToString(k - 1)

\* C4 happens: request 0 failed and returned after request 1 had returned,
\* and the result was made.
C4_Witness ==
    /\ result # None
    /\ Len(all_metrics) = 2
    /\ HasError(all_metrics[1])
    /\ all_metrics[1].end_time > all_metrics[2].end_time

\* C5: from the creation of the semaphore on, the slots taken are as many
\* as the requests inside the gate, whatever way requests left it; when the
\* run has returned, all C slots are free.
C5_SlotsHeldAreRequestsInside ==
    /\ pc \in {"gather", "done", "raised"} =>
          config.concurrency - semaphore = Cardinality(InFlight)
    /\ pc = "done" => semaphore = config.concurrency

\* C5 happens: a run with more requests than slots has returned, one of
\* its requests failed, and every slot is free.
C5_Witness ==
    /\ pc = "done"
    /\ config.concurrency >= 1
    /\ config.num_requests > config.concurrency
    /\ \E k \in 1..Len(all_metrics) : all_metrics[k].error # None
    /\ semaphore = config.concurrency

\* C6 (as claimed): every request that ran into its timeout is recorded with
\* an error and counted in failed_requests, and its slot is free again.
C6_TimeoutCountedAsFailed ==
    pc = "done" =>
        /\ \A i \in DOMAIN tasks :
              TimedOut(tasks[i]) => tasks[i].metrics[1].error # None
        /\ result[1].failed_requests
               >= Cardinality({i \in DOMAIN tasks : TimedOut(tasks[i])})
        /\ semaphore = config.concurrency

\* C7 (as claimed): the records with an error set are exactly those counted
\* in failed_requests, and request_metrics holds the successful_requests
\* records, none of which has an error set.
C7_FailuresCountedAsFailed ==
    result # None =>
        /\ result[1].failed_requests
               = Cardinality({k \in 1..Len(all_metrics) :
                                 all_metrics[k].error # None})
        /\ Len(result[1].request_metrics) = result[1].successful_requests
        /\ \A k \in 1..Len(result[1].request_metrics) :
              result[1].request_metrics[k].error = None

----------------------------------------------------------------------------
(* Properties of send_request, checked under SpecSend *)

\* the call's try block raised an exception
TryRaised(call) ==
    TryBlock(RequestMetrics(call.request_id, call.clock[1]), call.prompt,
             call.server, call.clock).exc # None

IsContentLine(ev) ==
    /\ ev.ev = "line"
    /\ ev.prefix
    /\ ev.data \in {JsonData(Chunk(JStr("a"))), JsonData(Chunk(JStr("bcde")))}

IsMalformedLine(ev) == ev.ev = "line" /\ ev.prefix /\ ev.data = BadData

\* the call with event i of its stream taken out
WithoutEvent(call, i) ==
    [call EXCEPT !.server.events =
        SubSeq(@, 1, i - 1) \o SubSeq(@, i + 1, Len(@))]

\* C3: whatever the server does, send_request raises nothing and returns a
\* record; when its request failed (the connection, the status, the stream
\* or the handling of a chunk raised), the record's error is set.
C3_NeverRaises ==
    sr_ret # None =>
        /\ sr_ret[1].exc = None
        /\ sr_ret[1].val.request_id = sr_call.request_id
        /\ TryRaised(sr_call) => sr_ret[1].val.error # None

\* C3 happens: the stream broke after a chunk and the record says so.
C3_Witness ==
    /\ sr_ret # None
    /\ Len(sr_call.server.events) = 2
    /\ IsContentLine(sr_call.server.events[1])
    /\ sr_call.server.events[2] = Failure("ReadError", "peer closed")
    /\ sr_ret[1].val.error = Some("peer closed")

\* C8: a record returned with error set has e2e_latency_ms, ttft_ms,
\* input_tokens, output_tokens and tokens_per_second all zero.
C8_ErrorMeansZeroFields ==
    (sr_ret # None /\ sr_ret[1].exc = None /\ sr_ret[1].val.error # None) =>
        /\ sr_ret[1].val.e2e_latency_ms = 0
        /\ sr_ret[1].val.ttft_ms = 0
        /\ sr_ret[1].val.input_tokens = 0
        /\ sr_ret[1].val.output_tokens = 0
        /\ sr_ret[1].val.tokens_per_second.num = 0

\* C8 happens: the failure came after a content chunk and after time had
\* passed since the start.
C8_Witness ==
    /\ sr_ret # None
    /\ Len(sr_call.server.events) = 2
    /\ sr_call.server.events[1] = Line(TRUE, JsonData(Chunk(JStr("bcde"))))
    /\ sr_call.server.events[2].ev = "raise"
    /\ sr_call.clock[4] > sr_call.clock[1]
    /\ sr_ret[1].val.error # None

\* C9: a record returned with error unset has end_time >= start_time,
\* ttft_ms >= 0, e2e_latency_ms >= 0 and, when the output is not empty,
\* ttft_ms <= e2e_latency_ms.
C9_SuccessTimesOrdered ==
    (sr_ret # None /\ sr_ret[1].exc = None /\ sr_ret[1].val.error = None) =>
        /\ sr_ret[1].val.end_time >= sr_ret[1].val.start_time
        /\ sr_ret[1].val.ttft_ms >= 0
        /\ sr_ret[1].val.e2e_latency_ms >= 0
        /\ OutputContent(sr_call) # "" =>
              sr_ret[1].val.ttft_ms <= sr_ret[1].val.e2e_latency_ms

\* C9 happens: a successful record with output whose first token came
\* after the start and before the end.
C9_Witness ==
    /\ sr_ret # None
    /\ sr_ret[1].val.error = None
    /\ OutputContent(sr_call) # ""
    /\ 0 < sr_ret[1].val.ttft_ms
    /\ sr_ret[1].val.ttft_ms < sr_ret[1].val.e2e_latency_ms

\* C10: a data line whose payload is no JSON document changes nothing: the
\* record has the error, the token counts and the output of the call on
\* the same stream without that line.
C10_MalformedChunkDropped ==
    sr_ret # None =>
        \A i \in 1..Len(sr_call.server.events) :
            IsMalformedLine(sr_call.server.events[i]) =>
                /\ sr_ret[1].exc = None
                /\ sr_ret[1].val.error
                       = send_request(sr_call.request_id, sr_call.prompt,
                                      WithoutEvent(sr_call, i).server,
                                      sr_call.clock).val.error
                /\ sr_ret[1].val.output_tokens
                       = send_request(sr_call.request_id, sr_call.prompt,
                                      WithoutEvent(sr_call, i).server,
                                      sr_call.clock).val.output_tokens
                /\ sr_ret[1].val.input_tokens
                       = send_request(sr_call.request_id, sr_call.prompt,
                                      WithoutEvent(sr_call, i).server,
                                      sr_call.clock).val.input_tokens
                /\ OutputContent(sr_call)
                       = OutputContent(WithoutEvent(sr_call, i))

\* C10 happens: a malformed line came first, the chunk after it was read
\* and the request succeeded.
C10_Witness ==
    /\ sr_ret # None
    /\ sr_call.server.events =
           <<Line(TRUE, BadData), Line(TRUE, JsonData(Chunk(JStr("bcde"))))>>
    /\ sr_ret[1].val.error = None
    /\ sr_ret[1].val.output_tokens = 1


----------------------------------------------------------------------------
(* Properties of the measured phase, the warmup and main, under Spec *)

\* the measured requests whose record has no error (error is None)
WithoutError == {i \in DOMAIN tasks : tasks[i].metrics # None
                                       /\ tasks[i].metrics[1].error = None}

\* the requests (warmup or measured) that have been given a client
Dispatched(ts) == {i \in DOMAIN ts : ts[i].pc # "created"}

\* C11: throughput_rps of the TestResult is successful_requests divided by
\* the wall-clock duration of the measured phase, 0 when that duration is
\* not positive, and only the requests that completed without an error are
\* in the numerator: no failed request and no warmup request.
C11_ThroughputCountsSuccessesOnly ==
    result # None =>
        /\ result[1].duration_seconds > 0 =>
              /\ result[1].throughput_rps =
                     [num |-> result[1].successful_requests,
                      den |-> result[1].duration_seconds]
              /\ result[1].throughput_rps.num = Cardinality(WithoutError)
        /\ result[1].duration_seconds <= 0 =>
              result[1].throughput_rps.num = 0

\* C12: the wall-clock start is not taken while a warmup request is
\* unsettled, no measured request enters send_request before it, and the
\* interval from it to the wall-clock end (duration_seconds long) holds
\* the [start_time, end_time] of every measured request.
C12_DurationSpansMeasuredRequests ==
    /\ (\E i \in DOMAIN warmup_tasks : warmup_tasks[i].pc # "done") =>
          start_time = 0 /\ tasks = << >>
    /\ \A i \in Dispatched(tasks) :
          start_time >= 1 /\ start_time <= tasks[i].entered
    /\ result # None =>
          \A i \in DOMAIN tasks :
             /\ start_time <= tasks[i].metrics[1].start_time
             /\ tasks[i].metrics[1].start_time <= tasks[i].metrics[1].end_time
             /\ tasks[i].metrics[1].end_time
                    <= start_time + result[1].duration_seconds

\* C12 happens: a run with warmup whose measured request started after
\* the wall-clock start and took time.
C12_Witness ==
    /\ result # None
    /\ config.warmup_requests >= 1
    /\ result[1].duration_seconds >= 1
    /\ \E i \in DOMAIN tasks :
          tasks[i].metrics[1].end_time > tasks[i].metrics[1].start_time

\* C13: every warmup request that has not started can start at once,
\* whatever the number of warmup requests in flight and the concurrency;
\* no warmup failure ends the run; the result counts the N measured
\* requests only and request_metrics holds records of measured requests.
C13_WarmupUngatedAndDiscarded ==
    /\ \A i \in DOMAIN warmup_tasks :
          (pc = "warmup" /\ warmup_tasks[i].pc = "created")
              => ENABLED WarmupSend(i)
    /\ pc # "raised"
    /\ result # None =>
          /\ result[1].total_requests = config.num_requests
          /\ result[1].successful_requests + result[1].failed_requests
                 = config.num_requests
          /\ \A k \in 1..Len(result[1].request_metrics) :
                \E i \in DOMAIN tasks :
                   result[1].request_metrics[k] = tasks[i].metrics[1]

\* C13 happens: more warmup requests are in flight than the concurrency
\* C >= 1 allows for measured requests.
C13_Witness ==
    /\ pc = "warmup"
    /\ config.concurrency >= 1
    /\ Cardinality({i \in DOMAIN warmup_tasks : warmup_tasks[i].pc = "sent"})
           > config.concurrency

\* C14 as stated: every request of a run, warmup or measured, is sent
\* through the same client instance.
C14_OneClientForTheRun ==
    \A i \in Dispatched(warmup_tasks), j \in Dispatched(tasks) :
        warmup_tasks[i].client = tasks[j].client

\* C14 amended: the measured requests of a run all use one client
\* instance and its warmup requests all use one client instance; a client
\* is open while a request sent through it is in flight, and at most one
\* client is open at a time.
C14_OneClientPerPhase ==
    /\ \A i, j \in Dispatched(tasks) : tasks[i].client = tasks[j].client
    /\ \A i, j \in Dispatched(warmup_tasks) :
          warmup_tasks[i].client = warmup_tasks[j].client
    /\ \A i \in DOMAIN tasks :
          tasks[i].pc = "sent" => clients[tasks[i].client] = "open"
    /\ \A i \in DOMAIN warmup_tasks :
          warmup_tasks[i].pc = "sent"
              => clients[warmup_tasks[i].client] = "open"
    /\ Cardinality({c \in DOMAIN clients : clients[c] = "open"}) <= 1

\* C14 happens: two measured requests are in flight after a warmup.
C14_Witness ==
    /\ config.warmup_requests >= 1
    /\ Cardinality(InFlight) >= 2

\* C15: the process exits with status 0 exactly when the TestResult has
\* failed_requests = 0, and with a non-zero status whenever a measured
\* request failed.
C15_ExitZeroIffNoFailure ==
    (exit_status # None /\ result # None) =>
        /\ exit_status[1] = 0 <=> result[1].failed_requests = 0
        /\ (\E i \in DOMAIN tasks : tasks[i].metrics[1].error # None)
              => exit_status[1] # 0


----------------------------------------------------------------------------
(* PrometheusCollector, benchmark/metrics/collector.py.  A float that     *)
(* collect_vllm_metrics reports is None (null) or Some([num, den]): the   *)
(* quotient sum(numeric_values) / len(numeric_values), 0.0 being 0 / 1.   *)

\* the keys of VLLM_QUERIES, in the order of the dict (lines 17-26)
VLLM_QUERIES ==
    <<"request_throughput", "avg_ttft", "p95_ttft", "avg_latency",
      "p95_latency", "gpu_cache_usage", "queue_size", "token_throughput">>

MetricNames == {VLLM_QUERIES[i] : i \in DOMAIN VLLM_QUERIES}

\* the float 0.0 of lines 144 and 146
Zero == [num |-> 0, den |-> 1]

\* what the backend does with one query: get raises the transport error
\* get, or the response has the status code status_code and the body body
\* (given as for json_loads)
Response(get, status_code, body) ==
    [get |-> get, status_code |-> status_code, body |-> body]

\* line 88: self.client.get(url, params=...)
ClientGet(resp) ==
    IF resp.get # None THEN [exc |-> resp.get, val |-> None] ELSE Ok(resp)

\* line 97: response.raise_for_status()
RaiseForStatus(resp) ==
    IF resp.status_code >= 400
    THEN Raise("HTTPStatusError",
               "Server error '" \o ToString(resp.status_code) \o "'")
    ELSE Ok(resp)

\* lines 100-102: the "data" member of a body whose status is "success"
\* (an empty dict when it has none), None for another status
SuccessData(data) ==
    Then(DictGet(data, "status", JNull), LAMBDA status :
         IF status.t = "str" /\ status.s = "success"
         THEN DictGet(data, "data", EmptyDict)
         ELSE Ok(JNull))

\* lines 88-102: the try block of query_prometheus
QueryTry(resp) ==
    Then(ClientGet(resp), LAMBDA r1 :
    Then(RaiseForStatus(r1), LAMBDA r2 :
    Then(json_loads(r2.body), LAMBDA data : SuccessData(data))))

\* mutant of QueryExcept: the handler is for HTTP errors only
QueryExceptStatusOnly(e) == e.cls = "HTTPStatusError"

\* line 104: "except Exception as e"
QueryExcept(e) == e.cls \in ExceptionSubclasses

\* lines 104-106: the handler returns None
QueryHandler(r) ==
    IF r.exc # None /\ QueryExcept(r.exc[1]) THEN Ok(JNull) ELSE r

\* query_prometheus (lines 69-106) for a query the backend answers with
\* resp; the None returned is the JSON null
query_prometheus(resp) == QueryHandler(QueryTry(resp))

RECURSIVE KeysOf(_)
KeysOf(S) ==
    IF S = {} THEN << >>
    ELSE <<JStr(CHOOSE k \in S : TRUE)>>
             \o KeysOf(S \ {CHOOSE k \in S : TRUE})

\* iter(x), as the comprehension of line 140 runs it: the items of a list,
\* the characters of a str, the keys of a dict
Iter(x) ==
    CASE x.t = "list" -> Ok(x.l)
      [] x.t = "str" -> Ok([i \in 1..Len(x.s) |-> JStr(SubSeq(x.s, i, i))])
      [] x.t = "obj" -> Ok(KeysOf(DOMAIN x.o))
      [] OTHER -> Raise("TypeError",
                        "'" \o PyTypeName(x) \o "' object is not iterable")

\* v[1]
Index1(v) ==
    CASE v.t = "list" ->
            IF Len(v.l) < 2 THEN Raise("IndexError", "list index out of range")
            ELSE Ok(v.l[2])
      [] v.t = "str" ->
            IF Len(v.s) < 2
            THEN Raise("IndexError", "string index out of range")
            ELSE Ok(JStr(SubSeq(v.s, 2, 2)))
      [] v.t = "obj" -> Raise("KeyError", "1")
      [] OTHER -> Raise("TypeError",
                        "'" \o PyTypeName(v) \o "' object is not subscriptable")

\* float(x) for the sample values of the model
PyFloat(x) ==
    CASE x.t = "num" -> Ok(x.n)
      [] x.t = "str" /\ x.s = "0" -> Ok(0)
      [] x.t = "str" /\ x.s = "2" -> Ok(2)
      [] x.t = "str" /\ x.s = "4" -> Ok(4)
      [] x.t = "str" -> Raise("ValueError",
                              "could not convert string to float: '"
                              \o x.s \o "'")
      [] OTHER -> Raise("TypeError",
                        "float() argument must be a string or a real number")

\* line 140: [float(v[1]) for v in values if v[1] != "None"], from item i
RECURSIVE NumericValues(_, _)
NumericValues(items, i) ==
    IF i > Len(items) THEN Ok(<< >>)
    ELSE Then(Index1(items[i]), LAMBDA x :
              IF x.t = "str" /\ x.s = "None" THEN NumericValues(items, i + 1)
              ELSE Then(PyFloat(x), LAMBDA f :
                   Then(NumericValues(items, i + 1), LAMBDA rest :
                        Ok(<<f>> \o rest))))

RECURSIVE Sum(_, _)
Sum(l, i) == IF i > Len(l) THEN 0 ELSE l[i] + Sum(l, i + 1)

\* lines 141-144
Average(numeric_values) ==
    IF Len(numeric_values) > 0
    THEN Ok(Some([num |-> Sum(numeric_values, 1),
                  den |-> Len(numeric_values)]))
    ELSE Ok(Some(Zero))

\* lines 138-146
FromValues(values) ==
    IF Truthy(values)
    THEN Then(Iter(values), LAMBDA items :
         Then(NumericValues(items, 1), LAMBDA numeric_values :
              Average(numeric_values)))
    ELSE Ok(Some(Zero))

\* lines 135-137: result["result"][0].get("values", []) and what follows
FromSeries(series) ==
    IF Truthy(series)
    THEN Then(Index0(series), LAMBDA first :
         Then(DictGet(first, "values", JList(<< >>)), LAMBDA values :
              FromValues(values)))
    ELSE Ok(None)

\* lines 135-148: the value stored for a metric whose query returned res
MetricValue(res) ==
    IF Truthy(res)
    THEN Then(DictGet(res, "result", JNull), LAMBDA series :
              FromSeries(series))
    ELSE Ok(None)

\* metrics[metric_name] = value
SetItem(metrics, metric_name, value) ==
    [n \in DOMAIN metrics \cup {metric_name} |->
        IF n = metric_name THEN value ELSE metrics[n]]

\* lines 131-148: the loop over VLLM_QUERIES, from its i-th item
RECURSIVE CollectLoop(_, _, _)
CollectLoop(backend, i, metrics) ==
    IF i > Len(VLLM_QUERIES) THEN Ok(metrics)
    ELSE Then(query_prometheus(backend[VLLM_QUERIES[i]]), LAMBDA res :
         Then(MetricValue(res), LAMBDA value :
              CollectLoop(backend, i + 1,
                          SetItem(metrics, VLLM_QUERIES[i], value))))

\* PrometheusMetrics(timestamp=..., query_duration_seconds=..., metrics=...)
PrometheusMetrics(metrics) ==
    [timestamp |-> "now", query_duration_seconds |-> 0, metrics |-> metrics]

\* collect_vllm_metrics (lines 108-156) against a backend that answers the
\* query of metric n with backend[n]
collect_vllm_metrics(backend) ==
    Then(CollectLoop(backend, 1, << >>), LAMBDA metrics :
         Ok(PrometheusMetrics(metrics)))

\* lines 194-199: the result of the with block, or None for an exception
CollectHandler(r) ==
    IF r.exc # None /\ r.exc[1].cls \in ExceptionSubclasses
    THEN Ok(None) ELSE Ok(Some(r.val))

\* collect_metrics_if_enabled (lines 171-199)
collect_metrics_if_enabled(backend, collect_enabled) ==
    IF ~collect_enabled THEN Ok(None)
    ELSE CollectHandler(collect_vllm_metrics(backend))

(* Backends *)

Sample(value) == JList(<<JNum(1), value>>)
Series(values) == JObj([metric |-> EmptyDict, values |-> values])
Matrix(series) ==
    JObj([resultType |-> JStr("matrix"), result |-> series])
Success(data) == JObj([status |-> JStr("success"), data |-> data])

\* the entries of a "values" list: samples with a number, with "None" and
\* with text that is no number, and an entry that has no value
SampleEntries ==
    {Sample(JStr("2")), Sample(JStr("None")), Sample(JStr("abc")),
     JList(<<JNum(1)>>)}

Bodies ==
    {Success(Matrix(JList(<<Series(JList(samples))>>))) :
         samples \in SeqsUpTo(SampleEntries, MaxSamples)}
    \cup {Success(Matrix(JList(<<JNum(5)>>))),        \* a series that is no object
          Success(Matrix(JList(<<JObj([metric |-> EmptyDict])>>))),
          Success(Matrix(JList(<<Series(JNull)>>))),
          Success(Matrix(JList(<<Series(JStr("ab"))>>))),
          Success(Matrix(JList(<<Series(JNum(7))>>))),
          Success(Matrix(JList(<< >>))),               \* no series
          Success(JObj([resultType |-> JStr("matrix")])),
          Success(Matrix(JStr("x"))),
          Success(Matrix(JObj([a |-> JNum(1)]))),
          Success(JNull),
          Success(JList(<<JNum(1)>>)),
          JObj([status |-> JStr("success")]),          \* no data
          JObj([status |-> JStr("error"), error |-> JStr("bad_data")]),
          JObj([data |-> Matrix(JList(<< >>))]),       \* no status
          JList(<<JNum(1)>>)}

Responses ==
    {Response(None, 200, JsonData(b)) : b \in Bodies}
    \cup {Response(Some(Exc("ConnectError", "All connection attempts failed")),
                   0, BadData),
          Response(Some(Exc("ReadTimeout", "")), 0, BadData),
          Response(None, 503, BadData),
          Response(None, 200, BadData)}

\* a backend answers every query with one response, but for the query of
\* one metric, which it answers with another
Backends ==
    {[n \in MetricNames |-> IF n = special THEN other ELSE all] :
        all \in Responses, other \in Responses, special \in MetricNames}

Unreachable ==
    [n \in MetricNames |->
        Response(Some(Exc("ConnectError", "All connection attempts failed")),
                 0, BadData)]

(* One call of collect_vllm_metrics or of collect_metrics_if_enabled *)

InitCollect ==
    /\ pm_call \in [backend : Backends, collect_enabled : {TRUE}]
                   \cup [backend : {Unreachable}, collect_enabled : {FALSE}]
    /\ pm_ret = None
    /\ sr_call = [request_id |-> "req-0", prompt |-> DriverPrompt,
                  server |-> HttpStatus(500, ""), clock |-> [i \in 1..5 |-> 1]]
    /\ sr_ret = None
    /\ config = [concurrency |-> 0, num_requests |-> 0, warmup_requests |-> 0]
    /\ pc = "idle"
    /\ now = 1
    /\ semaphore = 0
    /\ clients = << >>
    /\ warmup_tasks = << >>
    /\ tasks = << >>
    /\ start_time = 0
    /\ all_metrics = << >>
    /\ result = None
    /\ exit_status = None
    /\ calc_call = NoCall
    /\ calc_ret = None
    /\ NoPromptCall
    /\ NoDatabase

\* collector.collect_vllm_metrics(test_start_time, test_end_time)
CollectVllmMetrics ==
    /\ pm_ret = None
    /\ pm_call.collect_enabled
    /\ pm_ret' = Some([fn |-> "collect_vllm_metrics",
                       r |-> collect_vllm_metrics(pm_call.backend)])
    /\ UNCHANGED <<pm_call, calc_call, calc_ret, sr_call, sr_ret, driver_vars,
                   prompt_vars, checkin_vars>>

\* collect_metrics_if_enabled(prometheus_url, collect_enabled, ...)
CollectMetricsIfEnabled ==
    /\ pm_ret = None
    /\ pm_ret' = Some([fn |-> "collect_metrics_if_enabled",
                       r |-> collect_metrics_if_enabled(
                                 pm_call.backend, pm_call.collect_enabled)])
    /\ UNCHANGED <<pm_call, calc_call, calc_ret, sr_call, sr_ret, driver_vars,
                   prompt_vars, checkin_vars>>

NextCollect == CollectVllmMetrics \/ CollectMetricsIfEnabled

SpecCollect == InitCollect /\ [][NextCollect]_vars


----------------------------------------------------------------------------
(* Properties of the collector, checked under SpecCollect *)

\* the body of resp is a JSON object whose status is "success"
IsSuccess(resp) ==
    /\ resp.get = None
    /\ resp.status_code < 400
    /\ resp.body.k = "json"
    /\ resp.body.val.t = "obj"
    /\ "status" \in DOMAIN resp.body.val.o
    /\ resp.body.val.o.status.t = "str"
    /\ resp.body.val.o.status.s = "success"

\* the query fails: transport error, error status, a body that is no JSON
\* or a body whose status is not "success"
QueryFails(resp) == ~IsSuccess(resp)

\* the "data" object of a successful response, EmptyDict when it has none
DataOf(resp) ==
    IF "data" \in DOMAIN resp.body.val.o THEN resp.body.val.o.data
    ELSE EmptyDict

\* the response is successful and carries no series
NoSeries(resp) ==
    /\ IsSuccess(resp)
    /\ DataOf(resp).t = "obj"
    /\ \/ "result" \notin DOMAIN DataOf(resp).o
       \/ /\ DataOf(resp).o.result.t = "list"
          /\ Len(DataOf(resp).o.result.l) = 0

\* the series of a successful response that carries well-formed series
SeriesOf(resp) == DataOf(resp).o.result.l

HasSeries(resp) ==
    /\ IsSuccess(resp)
    /\ DataOf(resp).t = "obj"
    /\ "result" \in DOMAIN DataOf(resp).o
    /\ DataOf(resp).o.result.t = "list"
    /\ Len(DataOf(resp).o.result.l) > 0
    /\ SeriesOf(resp)[1].t = "obj"

\* the first series of the response has no samples in the window
NoSamples(resp) ==
    /\ HasSeries(resp)
    /\ \/ "values" \notin DOMAIN SeriesOf(resp)[1].o
       \/ /\ SeriesOf(resp)[1].o.values.t = "list"
          /\ Len(SeriesOf(resp)[1].o.values.l) = 0

\* the first series of the response has samples, each a pair whose value
\* is the text of a number
Healthy(resp) ==
    /\ HasSeries(resp)
    /\ "values" \in DOMAIN SeriesOf(resp)[1].o
    /\ SeriesOf(resp)[1].o.values.t = "list"
    /\ Len(SeriesOf(resp)[1].o.values.l) > 0
    /\ \A k \in 1..Len(SeriesOf(resp)[1].o.values.l) :
          SeriesOf(resp)[1].o.values.l[k] = Sample(JStr("2"))

\* the backend cannot be reached: every request to it is a transport error
IsUnreachable(backend) == \A n \in MetricNames : backend[n].get # None

\* collect_vllm_metrics was called and returned a PrometheusMetrics
Collected ==
    /\ pm_ret # None
    /\ pm_ret[1].fn = "collect_vllm_metrics"
    /\ pm_ret[1].r.exc = None

\* C16: in the result of collect_vllm_metrics, a metric whose query
\* failed, whose response has no series or whose series has no samples is
\* null, not 0.0.
C16_UnavailableMetricIsNull ==
    Collected =>
        \A n \in MetricNames :
            (\/ QueryFails(pm_call.backend[n])
             \/ NoSeries(pm_call.backend[n])
             \/ NoSamples(pm_call.backend[n]))
                => pm_ret[1].r.val.metrics[n] = None

\* C17: against a backend that cannot be reached collect_vllm_metrics
\* raises nothing and returns a result with every name of VLLM_QUERIES
\* mapped to null (and collect_metrics_if_enabled returns that result);
\* a failed query does not stop the loop: when every query fails or is
\* answered with samples, every metric is there, null exactly for the
\* failed queries.
C17_UnreachableBackendAllNull ==
    pm_ret # None =>
        /\ (IsUnreachable(pm_call.backend)
              /\ pm_ret[1].fn = "collect_vllm_metrics") =>
               /\ pm_ret[1].r.exc = None
               /\ DOMAIN pm_ret[1].r.val.metrics = MetricNames
               /\ \A n \in MetricNames : pm_ret[1].r.val.metrics[n] = None
        /\ (IsUnreachable(pm_call.backend) /\ pm_call.collect_enabled
              /\ pm_ret[1].fn = "collect_metrics_if_enabled") =>
               /\ pm_ret[1].r.exc = None
               /\ pm_ret[1].r.val # None
               /\ DOMAIN pm_ret[1].r.val[1].metrics = MetricNames
               /\ \A n \in MetricNames :
                     pm_ret[1].r.val[1].metrics[n] = None
        /\ ((\A n \in MetricNames : \/ QueryFails(pm_call.backend[n])
                                    \/ Healthy(pm_call.backend[n]))
              /\ pm_ret[1].fn = "collect_vllm_metrics") =>
               /\ pm_ret[1].r.exc = None
               /\ DOMAIN pm_ret[1].r.val.metrics = MetricNames
               /\ \A n \in MetricNames :
                     QueryFails(pm_call.backend[n])
                         <=> pm_ret[1].r.val.metrics[n] = None

\* C17 happens: collect_vllm_metrics has returned from a run against a
\* backend that cannot be reached.
C17_Witness ==
    /\ Collected
    /\ IsUnreachable(pm_call.backend)
    /\ \E n \in MetricNames : pm_call.backend[n].get[1].cls = "ReadTimeout"

\* C18: collect_vllm_metrics raises for no backend response: transport
\* error, error status, body that is no JSON, failure status, or a
\* success whose series or samples are malformed.
C18_CollectNeverRaises ==
    (pm_ret # None /\ pm_ret[1].fn = "collect_vllm_metrics")
        => pm_ret[1].r.exc = None


----------------------------------------------------------------------------
(* Statistics, benchmark/metrics/calculator.py.  The floats are modelled  *)
(* as exact reals.  A rational is [num, den] with den > 0.  A real that   *)
(* comes from a square root is [sgn, num, den]: the number                *)
(* sgn * sqrt(num / den), with sgn in {-1, 0, 1}, num >= 0 and den > 0    *)
(* when sgn # 0.                                                          *)

Sign(n) == IF n > 0 THEN 1 ELSE IF n < 0 THEN 0 - 1 ELSE 0

\* the float 0.0 as a root
RootZero == [sgn |-> 0, num |-> 0, den |-> 1]

\* the integer n as a root
RootOfInt(n) == [sgn |-> Sign(n), num |-> n * n, den |-> 1]

\* a <= b and a < b for two roots
RootLeq(a, b) ==
    CASE a.sgn < b.sgn -> TRUE
      [] a.sgn > b.sgn -> FALSE
      [] a.sgn = 0 -> TRUE
      [] a.sgn = 1 -> a.num * b.den <= b.num * a.den
      [] OTHER -> b.num * a.den <= a.num * b.den

RootLess(a, b) ==
    CASE a.sgn < b.sgn -> TRUE
      [] a.sgn > b.sgn -> FALSE
      [] a.sgn = 0 -> FALSE
      [] a.sgn = 1 -> a.num * b.den < b.num * a.den
      [] OTHER -> b.num * a.den < a.num * b.den

RECURSIVE SumSquares(_, _)
SumSquares(l, i) ==
    IF i > Len(l) THEN 0 ELSE l[i] * l[i] + SumSquares(l, i + 1)

\* sorted(values)
RECURSIVE Sorted(_)
Insert(sorted, x) ==
    SubSeq(sorted, 1, Cardinality({i \in 1..Len(sorted) : sorted[i] <= x}))
    \o <<x>>
    \o SubSeq(sorted, Cardinality({i \in 1..Len(sorted) : sorted[i] <= x}) + 1,
              Len(sorted))
Sorted(l) == IF l = << >> THEN << >> ELSE Insert(Sorted(Tail(l)), Head(l))

\* the value at position pos / 100 (counted from 0) of a sorted list,
\* interpolated linearly between its two neighbours
Interpolate(sorted, pos) ==
    IF pos % 100 = 0 THEN [num |-> sorted[pos \div 100 + 1], den |-> 1]
    ELSE [num |-> sorted[pos \div 100 + 1] * 100
                  + (pos % 100) * (sorted[pos \div 100 + 2]
                                   - sorted[pos \div 100 + 1]),
          den |-> 100]

\* mutant of np_percentile: the lower of the two neighbours is taken
np_percentile_lower(values, p) ==
    IF p < 0 \/ p > 100
    THEN Raise("ValueError", "Percentiles must be in the range [0, 100]")
    ELSE Ok([num |-> Sorted(values)[(p * (Len(values) - 1)) \div 100 + 1],
             den |-> 1])

\* np.percentile(values, p) of a list that is not empty
np_percentile(values, p) ==
    IF p < 0 \/ p > 100
    THEN Raise("ValueError", "Percentiles must be in the range [0, 100]")
    ELSE Ok(Interpolate(Sorted(values), p * (Len(values) - 1)))

\* line 48: {p: float(np.percentile(values, p)) for p in percentiles}, from
\* the i-th percentile on
RECURSIVE PercentileDict(_, _, _, _)
PercentileDict(values, percentiles, i, d) ==
    IF i > Len(percentiles) THEN Ok(d)
    ELSE Then(np_percentile(values, percentiles[i]), LAMBDA v :
              PercentileDict(values, percentiles, i + 1,
                             SetItem(d, percentiles[i], v)))

\* mutant of calculate_percentiles: no entries for an empty list of values
calculate_percentiles_empty(values, percentiles) ==
    IF Len(values) = 0 THEN Ok(<< >>)
    ELSE PercentileDict(values, percentiles, 1, << >>)

\* lines 35-48
calculate_percentiles(values, percentiles) ==
    IF Len(values) = 0
    THEN Ok([p \in {percentiles[i] : i \in DOMAIN percentiles} |-> Zero])
    ELSE PercentileDict(values, percentiles, 1, << >>)

\* lines 51-62
calculate_mean(values) ==
    IF Len(values) = 0 THEN Zero
    ELSE [num |-> Sum(values, 1), den |-> Len(values)]

\* np.std(values, ddof=1): the root of
\* (n * sum(x^2) - sum(x)^2) / (n * (n - 1))
np_std_ddof1(values) ==
    [sgn |-> Sign(Len(values) * SumSquares(values, 1)
                  - Sum(values, 1) * Sum(values, 1)),
     num |-> Len(values) * SumSquares(values, 1)
             - Sum(values, 1) * Sum(values, 1),
     den |-> Len(values) * (Len(values) - 1)]

\* lines 65-76
calculate_stddev(values) ==
    IF Len(values) < 2 THEN RootZero ELSE np_std_ddof1(values)

\* (stddev / mean) * 100 for mean # 0
PercentOf(stddev, mean) ==
    [sgn |-> stddev.sgn * Sign(mean.num),
     num |-> stddev.num * mean.den * mean.den * 10000,
     den |-> stddev.den * mean.num * mean.num]

\* lines 79-94
calculate_coefficient_of_variation(values) ==
    IF calculate_mean(values).num = 0 THEN RootZero
    ELSE PercentOf(calculate_stddev(values), calculate_mean(values))

\* mutant of verify_reproducibility: the threshold itself is too much
verify_reproducibility_strict(throughput_values, max_cv_percent) ==
    IF Len(throughput_values) < 2
    THEN [reproducible |-> TRUE, cv |-> RootZero,
          message |-> "Insufficient data for variance check"]
    ELSE IF RootLess(calculate_coefficient_of_variation(throughput_values),
                     RootOfInt(max_cv_percent))
    THEN [reproducible |-> TRUE,
          cv |-> calculate_coefficient_of_variation(throughput_values),
          message |-> "Variance within limits"]
    ELSE [reproducible |-> FALSE,
          cv |-> calculate_coefficient_of_variation(throughput_values),
          message |-> "Variance too high"]

\* lines 139-161; of the two messages that give the numbers, the text in
\* front of the numbers is kept
verify_reproducibility(throughput_values, max_cv_percent) ==
    IF Len(throughput_values) < 2
    THEN [reproducible |-> TRUE, cv |-> RootZero,
          message |-> "Insufficient data for variance check"]
    ELSE IF RootLeq(calculate_coefficient_of_variation(throughput_values),
                    RootOfInt(max_cv_percent))
    THEN [reproducible |-> TRUE,
          cv |-> calculate_coefficient_of_variation(throughput_values),
          message |-> "Variance within limits"]
    ELSE [reproducible |-> FALSE,
          cv |-> calculate_coefficient_of_variation(throughput_values),
          message |-> "Variance too high"]

(* One call of a function of calculator.py *)

\* the measurements, the percentiles asked for and the thresholds
Measurements == {0 - 1, 0, 1, 3}
PercentileArgs == {0 - 5, 0, 50, 95, 100, 101}
Thresholds == {0 - 10, 0, 10, 200}

Functions ==
    {"calculate_percentiles", "calculate_mean", "calculate_stddev",
     "calculate_coefficient_of_variation", "verify_reproducibility"}

\* the example of the percentile of five latencies
ExampleCalls ==
    {[fn |-> "calculate_percentiles", values |-> <<10, 20, 30, 40, 50>>,
      percentiles |-> <<50>>, max_cv_percent |-> 10],
     [fn |-> "calculate_percentiles", values |-> <<50, 10, 40, 20, 30>>,
      percentiles |-> <<50, 95>>, max_cv_percent |-> 10]}

Calls ==
    ExampleCalls
    \cup
    [fn : {"calculate_percentiles"},
     values : SeqsUpTo(Measurements, MaxValues),
     percentiles : SeqsUpTo(PercentileArgs, MaxPercentiles),
     max_cv_percent : {10}]
    \cup [fn : {"calculate_mean", "calculate_stddev",
                "calculate_coefficient_of_variation"},
          values : SeqsUpTo(Measurements, MaxValues),
          percentiles : {<< >>},
          max_cv_percent : {10}]
    \cup [fn : {"verify_reproducibility"},
          values : SeqsUpTo(Measurements, MaxValues),
          percentiles : {<< >>},
          max_cv_percent : Thresholds]

InitCalc ==
    /\ calc_call \in Calls
    /\ calc_ret = None
    /\ pm_call = NoCall
    /\ pm_ret = None
    /\ sr_call = [request_id |-> "req-0", prompt |-> DriverPrompt,
                  server |-> HttpStatus(500, ""), clock |-> [i \in 1..5 |-> 1]]
    /\ sr_ret = None
    /\ config = [concurrency |-> 0, num_requests |-> 0, warmup_requests |-> 0]
    /\ pc = "idle"
    /\ now = 1
    /\ semaphore = 0
    /\ clients = << >>
    /\ warmup_tasks = << >>
    /\ tasks = << >>
    /\ start_time = 0
    /\ all_metrics = << >>
    /\ result = None
    /\ exit_status = None
    /\ NoPromptCall
    /\ NoDatabase

CalculatePercentiles ==
    /\ calc_ret = None
    /\ calc_call.fn = "calculate_percentiles"
    /\ calc_ret' = Some(calculate_percentiles(calc_call.values,
                                              calc_call.percentiles))
    /\ UNCHANGED <<calc_call, pm_call, pm_ret, sr_call, sr_ret, driver_vars,
                   prompt_vars, checkin_vars>>

CalculateMean ==
    /\ calc_ret = None
    /\ calc_call.fn = "calculate_mean"
    /\ calc_ret' = Some(Ok(calculate_mean(calc_call.values)))
    /\ UNCHANGED <<calc_call, pm_call, pm_ret, sr_call, sr_ret, driver_vars,
                   prompt_vars, checkin_vars>>

CalculateStddev ==
    /\ calc_ret = None
    /\ calc_call.fn = "calculate_stddev"
    /\ calc_ret' = Some(Ok(calculate_stddev(calc_call.values)))
    /\ UNCHANGED <<calc_call, pm_call, pm_ret, sr_call, sr_ret, driver_vars,
                   prompt_vars, checkin_vars>>

CalculateCoefficientOfVariation ==
    /\ calc_ret = None
    /\ calc_call.fn = "calculate_coefficient_of_variation"
    /\ calc_ret' = Some(Ok(calculate_coefficient_of_variation(
                              calc_call.values)))
    /\ UNCHANGED <<calc_call, pm_call, pm_ret, sr_call, sr_ret, driver_vars,
                   prompt_vars, checkin_vars>>

VerifyReproducibility ==
    /\ calc_ret = None
    /\ calc_call.fn = "verify_reproducibility"
    /\ calc_ret' = Some(Ok(verify_reproducibility(calc_call.values,
                                                  calc_call.max_cv_percent)))
    /\ UNCHANGED <<calc_call, pm_call, pm_ret, sr_call, sr_ret, driver_vars,
                   prompt_vars, checkin_vars>>

NextCalc ==
    \/ CalculatePercentiles
    \/ CalculateMean
    \/ CalculateStddev
    \/ CalculateCoefficientOfVariation
    \/ VerifyReproducibility

SpecCalc == InitCalc /\ [][NextCalc]_vars

----------------------------------------------------------------------------
(* Properties of the statistics, checked under SpecCalc *)

\* the function fn was called and has returned
Returned(fn) == calc_ret # None /\ calc_call.fn = fn

\* C19: verify_reproducibility(values, max_cv) says reproducible exactly
\* when there are fewer than 2 values or their coefficient of variation
\* is <= max_cv, and not reproducible exactly when there are 2 or more
\* values and the coefficient is > max_cv; the CV it returns is 0 for
\* fewer than 2 values and the coefficient of variation otherwise.
C19_ReproducibleIffCvWithinThreshold ==
    Returned("verify_reproducibility") =>
        /\ calc_ret[1].val.reproducible <=>
              \/ Len(calc_call.values) < 2
              \/ RootLeq(calculate_coefficient_of_variation(calc_call.values),
                         RootOfInt(calc_call.max_cv_percent))
        /\ ~calc_ret[1].val.reproducible <=>
              /\ Len(calc_call.values) >= 2
              /\ RootLess(RootOfInt(calc_call.max_cv_percent),
                          calculate_coefficient_of_variation(calc_call.values))
        /\ Len(calc_call.values) < 2 => calc_ret[1].val.cv.sgn = 0
        /\ Len(calc_call.values) >= 2 =>
              calc_ret[1].val.cv
                  = calculate_coefficient_of_variation(calc_call.values)

\* C19 happens: three measurements whose coefficient of variation is
\* exactly the threshold (mean 1, standard deviation 2, threshold 200).
C19_Witness ==
    /\ Returned("verify_reproducibility")
    /\ calc_call.values = <<0 - 1, 1, 3>>
    /\ calc_call.max_cv_percent = 200
    /\ calc_ret[1].val.reproducible

\* C20: calculate_mean of no values is 0.0, calculate_stddev of fewer
\* than 2 values is 0.0, calculate_percentiles of no values maps each
\* percentile asked for to 0.0 (and raises nothing), and
\* calculate_coefficient_of_variation is 0.0 when the mean is 0.
C20_DegenerateInputGivesZero ==
    /\ (Returned("calculate_mean") /\ Len(calc_call.values) = 0) =>
          calc_ret[1].exc = None /\ calc_ret[1].val.num = 0
    /\ (Returned("calculate_stddev") /\ Len(calc_call.values) < 2) =>
          calc_ret[1].exc = None /\ calc_ret[1].val.sgn = 0
    /\ (Returned("calculate_percentiles") /\ Len(calc_call.values) = 0) =>
          /\ calc_ret[1].exc = None
          /\ DOMAIN calc_ret[1].val
                 = {calc_call.percentiles[i] : i \in DOMAIN calc_call.percentiles}
          /\ \A p \in DOMAIN calc_ret[1].val : calc_ret[1].val[p].num = 0
    /\ (Returned("calculate_coefficient_of_variation")
          /\ Sum(calc_call.values, 1) = 0) =>
          calc_ret[1].exc = None /\ calc_ret[1].val.sgn = 0

\* C20 happens: percentiles (one of them out of range) of no values.
C20_Witness ==
    /\ Returned("calculate_percentiles")
    /\ calc_call.values = << >>
    /\ calc_call.percentiles = <<50, 101>>


\* the k-th smallest (k counted from 0) of the values: at most k values
\* are below it and more than k values are not above it
KthSmallest(values, k) ==
    CHOOSE x \in {values[i] : i \in DOMAIN values} :
        /\ Cardinality({i \in DOMAIN values : values[i] < x}) <= k
        /\ Cardinality({i \in DOMAIN values : values[i] <= x}) > k

\* 100 times the percentile p of the values by linear interpolation: with
\* the rank p / 100 * (n - 1) being lo + fr / 100, it is
\* 100 * s[lo] + fr * (s[lo + 1] - s[lo]) for the sorted values s
HundredTimesPercentile(values, p) ==
    IF (p * (Len(values) - 1)) % 100 = 0
    THEN 100 * KthSmallest(values, (p * (Len(values) - 1)) \div 100)
    ELSE 100 * KthSmallest(values, (p * (Len(values) - 1)) \div 100)
         + ((p * (Len(values) - 1)) % 100)
           * (KthSmallest(values, (p * (Len(values) - 1)) \div 100 + 1)
              - KthSmallest(values, (p * (Len(values) - 1)) \div 100))

\* C21: for values that are not empty and percentiles within 0..100,
\* calculate_percentiles gives for each percentile p the value at rank
\* p / 100 * (n - 1) of the sorted values, interpolated linearly between
\* the two neighbouring sorted values, whatever the order of the values;
\* for 10, 20, 30, 40, 50 (in any order) the percentile 50 is 30.
C21_PercentileIsLinearInterpolation ==
    (/\ Returned("calculate_percentiles")
     /\ Len(calc_call.values) > 0
     /\ \A i \in DOMAIN calc_call.percentiles :
           calc_call.percentiles[i] \in 0..100) =>
        /\ calc_ret[1].exc = None
        /\ DOMAIN calc_ret[1].val
               = {calc_call.percentiles[i] : i \in DOMAIN calc_call.percentiles}
        /\ \A p \in DOMAIN calc_ret[1].val :
              100 * calc_ret[1].val[p].num
                  = HundredTimesPercentile(calc_call.values, p)
                    * calc_ret[1].val[p].den
        /\ calc_call \in ExampleCalls =>
              calc_ret[1].val[50].num = 30 * calc_ret[1].val[50].den

\* C21 happens: the median of the two values 3 and 0, given unsorted, is
\* 1.5, between the two.
C21_Witness ==
    /\ Returned("calculate_percentiles")
    /\ calc_call.values = <<3, 0>>
    /\ calc_call.percentiles = <<50>>
    /\ calc_ret[1].val[50].num * 2 = 3 * calc_ret[1].val[50].den


----------------------------------------------------------------------------
(* Properties of the loop over the lines of the stream, under SpecSend *)

\* the line is the termination sentinel, "data: [DONE]"
IsDoneLine(ev) == ev.ev = "line" /\ ev.prefix /\ ev.data = DoneData

\* a data line whose payload is well-formed JSON with no text content:
\* no choices, no delta, no content, an empty list of choices, content null
IsNoContentLine(ev) ==
    /\ ev.ev = "line"
    /\ ev.prefix
    /\ ev.data \in
         {JsonData(EmptyDict),
          JsonData(JObj([choices |-> JList(<<EmptyDict>>)])),
          JsonData(JObj([choices |-> JList(<<JObj([delta |-> EmptyDict])>>)])),
          JsonData(JObj([choices |-> JList(<< >>)])),
          JsonData(Chunk(JNull))}

\* the loop stops at this event: the sentinel, an exception of the
\* transport, or a payload whose handling raises out of the loop
StopsLoop(ev) ==
    \/ ev.ev = "raise"
    \/ IsDoneLine(ev)
    \/ /\ ev.ev = "line"
       /\ ev.prefix
       /\ ev.data \in {JsonData(JObj([choices |-> JList(<< >>)])),
                       JsonData(JNum(5))}

\* the index of the first chunk with content that is not empty among the
\* lines the loop handles, 0 when there is none
FirstContent(events) ==
    IF \E i \in DOMAIN events :
           /\ IsContentLine(events[i])
           /\ \A j \in 1..(i - 1) : ~StopsLoop(events[j])
    THEN CHOOSE i \in DOMAIN events :
           /\ IsContentLine(events[i])
           /\ \A j \in 1..(i - 1) :
                 ~StopsLoop(events[j]) /\ ~IsContentLine(events[j])
    ELSE 0

\* first_token_time after the first k events of the call's stream
FirstTokenTimeAfter(call, k) ==
    AiterLines(SubSeq(call.server.events, 1, k), 1, Locals,
               call.clock).st.first_token_time

\* C25: first_token_time is set exactly once, by the clock reading made at
\* the first chunk whose content is not empty: it is unset before that
\* chunk (chunks with empty content do not set it), it never changes
\* after it, and the record has ttft_ms = 0 when there was no such chunk.
C25_FirstTokenTimeSetOnce ==
    sr_ret # None =>
        /\ \A k \in 0..Len(sr_call.server.events) :
              FirstTokenTimeAfter(sr_call, k)
                  = IF FirstContent(sr_call.server.events) \in 1..k
                    THEN Some(sr_call.clock[3])
                    ELSE None
        /\ FirstContent(sr_call.server.events) = 0 =>
              sr_ret[1].val.ttft_ms = 0
        /\ (sr_ret[1].val.error = None
            /\ FirstContent(sr_call.server.events) = 0) =>
              sr_ret[1].val.end_time = sr_call.clock[3]
        /\ (sr_ret[1].val.error = None
            /\ FirstContent(sr_call.server.events) # 0) =>
              /\ sr_ret[1].val.ttft_ms
                     = (sr_call.clock[3] - sr_call.clock[2]) * 1000
              /\ sr_ret[1].val.end_time = sr_call.clock[4]

\* C25 happens: two chunks with content, the second one later than the
\* first: the time to the first token is that of the first.
C25_Witness ==
    /\ sr_ret # None
    /\ sr_call.server.events =
           <<Line(TRUE, JsonData(Chunk(JStr("a")))),
             Line(TRUE, JsonData(Chunk(JStr("bcde"))))>>
    /\ sr_call.clock[2] < sr_call.clock[3]
    /\ sr_call.clock[3] < sr_call.clock[4]
    /\ sr_ret[1].val.ttft_ms = (sr_call.clock[3] - sr_call.clock[2]) * 1000

\* the text a line adds to the output: the content of a data line
FragmentOf(ev) ==
    IF ev = Line(TRUE, JsonData(Chunk(JStr("a")))) THEN "a"
    ELSE IF ev = Line(TRUE, JsonData(Chunk(JStr("bcde")))) THEN "bcde"
    ELSE ""

\* the fragments of the lines from line i on, up to the sentinel, in order
RECURSIVE Fragments(_, _)
Fragments(events, i) ==
    IF i > Len(events) THEN ""
    ELSE IF IsDoneLine(events[i]) THEN ""
    ELSE FragmentOf(events[i]) \o Fragments(events, i + 1)

\* the index of the first sentinel of the stream, its length when none
FirstDone(events) ==
    IF \E i \in DOMAIN events : IsDoneLine(events[i])
    THEN CHOOSE i \in DOMAIN events :
           IsDoneLine(events[i]) /\ \A j \in 1..(i - 1) : ~IsDoneLine(events[j])
    ELSE Len(events)

\* the call with its stream cut after the first sentinel
UpToDone(call) ==
    [call EXCEPT !.server.events = SubSeq(@, 1, FirstDone(@))]

\* C26: the output of a request that succeeded is the concatenation, in
\* the order of the stream, of the contents of the data lines before the
\* sentinel; a line without the data prefix changes nothing, and nothing
\* that follows the sentinel changes the record.
C26_OutputIsConcatenationUpToDone ==
    sr_ret # None =>
        /\ sr_ret[1] = send_request(sr_call.request_id, sr_call.prompt,
                                    UpToDone(sr_call).server, sr_call.clock)
        /\ \A i \in DOMAIN sr_call.server.events :
              (sr_call.server.events[i].ev = "line"
               /\ ~sr_call.server.events[i].prefix) =>
                  sr_ret[1] = send_request(sr_call.request_id, sr_call.prompt,
                                           WithoutEvent(sr_call, i).server,
                                           sr_call.clock)
        /\ (sr_call.server.connect = None /\ sr_call.server.status_code = 200
            /\ sr_ret[1].val.error = None) =>
              /\ OutputContent(sr_call) = Fragments(sr_call.server.events, 1)
              /\ sr_ret[1].val.output_tokens
                     = Len(Fragments(sr_call.server.events, 1)) \div 4

\* C26 happens: the sentinel came before a chunk with content, and the
\* output of the successful request is empty.
C26_Witness ==
    /\ sr_ret # None
    /\ sr_call.server.events =
           <<Line(TRUE, DoneData), Line(TRUE, JsonData(Chunk(JStr("bcde"))))>>
    /\ sr_ret[1].val.error = None
    /\ sr_ret[1].val.output_tokens = 0
    /\ OutputContent(sr_call) = ""

\* C30: a data line whose payload is well-formed JSON with no text content
\* changes nothing: the request does not fail because of it, and its record
\* is the one of the call on the same stream without that line.
C30_NoContentChunkTolerated ==
    sr_ret # None =>
        \A i \in DOMAIN sr_call.server.events :
            (IsNoContentLine(sr_call.server.events[i])
             /\ \A j \in 1..(i - 1) : ~StopsLoop(sr_call.server.events[j])) =>
                sr_ret[1] = send_request(sr_call.request_id, sr_call.prompt,
                                         WithoutEvent(sr_call, i).server,
                                         sr_call.clock)


----------------------------------------------------------------------------
(* The life of the clients and the progress of the measured phase *)

\* the coroutines of both phases
AllTasks ==
    {warmup_tasks[i] : i \in DOMAIN warmup_tasks}
    \cup {tasks[i] : i \in DOMAIN tasks}

\* C29: a request that has been sent and has not settled is on a client
\* that is open, and at the step that closes a client no coroutine of a
\* phase begun is still unsent or in flight.
C29_ClientClosedAfterItsRequestsSettled ==
    /\ [](\A t \in AllTasks :
             t.pc = "sent" => /\ t.client \in DOMAIN clients
                              /\ clients[t.client] = "open")
    /\ [][\A c \in DOMAIN clients :
             (clients[c] = "open" /\ clients'[c] = "closed") =>
                 /\ \A i \in DOMAIN warmup_tasks' :
                       warmup_tasks'[i].pc \in {"done", "raised"}
                 /\ \A i \in DOMAIN tasks' :
                       tasks'[i].pc \in {"done", "raised"}]_vars

\* C29 happens: the client of the warmup was closed after its requests,
\* and a measured request is in flight on the second client, open.
C29_Witness ==
    /\ pc = "gather"
    /\ Len(clients) = 2
    /\ clients[1] = "closed"
    /\ \A i \in DOMAIN warmup_tasks :
          warmup_tasks[i].pc = "done" /\ warmup_tasks[i].client = 1
    /\ \E i \in DOMAIN tasks :
          /\ tasks[i].pc = "sent"
          /\ tasks[i].client = 2
          /\ clients[2] = "open"

\* the measured requests that wait for a slot
Queued == {i \in DOMAIN tasks : tasks[i].pc = "created"}

\* C27: with concurrency C >= 1, when requests are queued and fewer than C
\* are in flight, one of the queued requests is admitted in the end; and,
\* every admitted request settling in the end, all N requests are admitted
\* and run_concurrent_test returns its TestResult.
C27_QueuedAdmittedAndRunReturns ==
    /\ \A n \in 1..MaxRequests :
          (/\ pc = "gather"
           /\ config.concurrency >= 1
           /\ Cardinality(Queued) = n
           /\ Cardinality(InFlight) < config.concurrency)
              ~> (Cardinality(Queued) < n)
    /\ (pc = "gather" /\ config.concurrency >= 1)
          ~> (/\ result # None
              /\ \A i \in DOMAIN tasks : tasks[i].pc = "done"
              /\ Len(all_metrics) = config.num_requests)

\* C27 happens: more requests than slots, so that requests had to wait,
\* and the run has returned its TestResult.
C27_Witness ==
    /\ config.concurrency >= 1
    /\ config.num_requests > config.concurrency
    /\ result # None
    /\ \A i \in DOMAIN tasks : tasks[i].pc = "done"


----------------------------------------------------------------------------
(* generate_prompt, load_test.py lines 76-114.  The configuration is a    *)
(* JSON document (the YAML file as loaded); the lengths are integers, for *)
(* which len(prompt) * 0.3 < input_length in floats is the same as        *)
(* 3 * len(prompt) < 10 * input_length.                                   *)

\* line 91
base_phrase == "Please explain the following concept in detail: "

\* lines 92-103
topics ==
    <<"quantum computing and its applications",
      "machine learning model architectures",
      "distributed systems design patterns",
      "natural language processing techniques",
      "computer vision algorithms",
      "database optimization strategies",
      "microservices architecture principles",
      "cloud infrastructure management",
      "data structures and algorithms",
      "software engineering best practices">>

\* config.get("prompt", {}).get(key, default)
PromptGet(cfg, key, default) ==
    Then(DictGet(cfg, "prompt", EmptyDict), LAMBDA section :
         DictGet(section, key, default))

\* lines 84-87: the fixed prompt that is returned, None when the function
\* goes on to generate a prompt
FixedPrompt(cfg, prompt_type) ==
    IF prompt_type = JStr("fixed")
    THEN Then(PromptGet(cfg, "fixed_prompt", JStr("")), LAMBDA fixed :
              Ok(IF Truthy(fixed) THEN Some(fixed) ELSE None))
    ELSE Ok(None)

\* s[:k]
PySlice(s, k) ==
    IF k >= 0
    THEN SubSeq(s, 1, IF k < Len(s) THEN k ELSE Len(s))
    ELSE SubSeq(s, 1, IF Len(s) + k > 0 THEN Len(s) + k ELSE 0)

\* the fixed prompt cut like a generated one
CutFixed(fixed, input_length) ==
    IF fixed = None \/ fixed[1].t # "str" \/ input_length.t # "num" THEN fixed
    ELSE Some(JStr(PySlice(fixed[1].s, input_length.n * 3)))

\* mutant of Preamble: the fixed prompt is cut to input_length * 3
\* characters
PreambleCutsFixed(cfg) ==
    Then(PromptGet(cfg, "prompt_type", JStr("random")), LAMBDA prompt_type :
    Then(PromptGet(cfg, "input_length", JNum(512)), LAMBDA input_length :
    Then(FixedPrompt(cfg, prompt_type), LAMBDA fixed :
         Ok([input_length |-> input_length,
             fixed |-> CutFixed(fixed, input_length)]))))

\* lines 81-87: input_length and the fixed prompt to return, if any
Preamble(cfg) ==
    Then(PromptGet(cfg, "prompt_type", JStr("random")), LAMBDA prompt_type :
    Then(PromptGet(cfg, "input_length", JNum(512)), LAMBDA input_length :
    Then(FixedPrompt(cfg, prompt_type), LAMBDA fixed :
         Ok([input_length |-> input_length, fixed |-> fixed]))))

\* line 107
FirstPrompt(topic) == base_phrase \o topic \o ". "

\* line 112: what one turn of the loop appends
Elaboration(topic) == "Elaborate on " \o topic \o ". "

\* mutant of LoopCondition: a character counts for 0.4 tokens
LoopConditionFourTenths(prompt, input_length) ==
    IF input_length.t = "num"
    THEN Ok(4 * Len(prompt) < 10 * input_length.n)
    ELSE Raise("TypeError",
               "'<' not supported between instances of 'float' and '"
               \o PyTypeName(input_length) \o "'")

\* line 111: len(prompt) * 0.3 < input_length
LoopCondition(prompt, input_length) ==
    IF input_length.t = "num"
    THEN Ok(3 * Len(prompt) < 10 * input_length.n)
    ELSE Raise("TypeError",
               "'<' not supported between instances of 'float' and '"
               \o PyTypeName(input_length) \o "'")

\* line 114: prompt[:int(input_length * 3)]
Truncated(prompt, input_length) == JStr(PySlice(prompt, input_length.n * 3))

\* the locals when the function is entered
EnteredFrame ==
    [pc |-> "start", input_length |-> JNull, topic |-> "", prompt |-> ""]

\* what a call returns (val), or the exception it raises (exc)
Raised(exc) == [exc |-> exc, val |-> JNull]
Returns(val) == [exc |-> None, val |-> val]

----------------------------------------------------------------------------
(* The configurations generate_prompt is called with *)

Absent == [JNull EXCEPT !.t = "absent"]

PromptTypes == {Absent, JStr("random"), JStr("fixed"), JStr("template")}

InputLengths ==
    {Absent, JStr("512")} \cup {JNum(n) : n \in (0 - 1)..MaxInputLength}

FixedPrompts == {Absent, JStr(""), JStr("Hello, world")}

\* the "prompt" section with the keys that are present
Section(prompt_type, input_length, fixed_prompt) ==
    LET value == [prompt_type |-> prompt_type, input_length |-> input_length,
                  fixed_prompt |-> fixed_prompt]
    IN [key \in {k \in DOMAIN value : value[k] # Absent} |-> value[key]]

\* the configurations: with a "prompt" section, without one, and with an
\* empty one (which YAML loads as None)
Configs ==
    {JObj([prompt |-> JObj(Section(t, l, f))]) :
         t \in PromptTypes, l \in InputLengths, f \in FixedPrompts}
    \cup {EmptyDict, JObj([prompt |-> JNull])}

\* nothing else runs: the values of the variables of the load test and of
\* the metrics modules
NoRun ==
    /\ sr_call = [request_id |-> "req-0", prompt |-> DriverPrompt,
                  server |-> HttpStatus(500, ""), clock |-> [i \in 1..5 |-> 1]]
    /\ sr_ret = None
    /\ config = [concurrency |-> 0, num_requests |-> 0, warmup_requests |-> 0]
    /\ pc = "idle"
    /\ now = 1
    /\ semaphore = 0
    /\ clients = << >>
    /\ warmup_tasks = << >>
    /\ tasks = << >>
    /\ start_time = 0
    /\ all_metrics = << >>
    /\ result = None
    /\ exit_status = None
    /\ pm_call = NoCall
    /\ pm_ret = None
    /\ calc_call = NoCall
    /\ calc_ret = None

not_prompt_vars ==
    <<sr_call, sr_ret, driver_vars, pm_call, pm_ret, calc_call, calc_ret,
      checkin_vars>>

InitPrompt ==
    /\ gp_call \in Configs
    /\ gp_frame = EnteredFrame
    /\ gp_ret = None
    /\ NoRun
    /\ NoDatabase

\* lines 81-87 raised, or returned the fixed prompt
StartReturn(pre) ==
    IF pre.exc # None THEN Raised(pre.exc) ELSE Returns(pre.val.fixed[1])

\* lines 81-107: the configuration is read; the fixed prompt is returned,
\* or a topic is drawn (random.choice) and the prompt is begun
GenerateStart ==
    /\ gp_call # NoCall
    /\ gp_frame.pc = "start"
    /\ IF Preamble(gp_call).exc # None \/ Preamble(gp_call).val.fixed # None
       THEN /\ gp_frame' = [gp_frame EXCEPT !.pc = "done"]
            /\ gp_ret' = Some(StartReturn(Preamble(gp_call)))
       ELSE /\ \E i \in DOMAIN topics :
                 gp_frame' = [pc |-> "loop",
                              input_length |-> Preamble(gp_call).val.input_length,
                              topic |-> topics[i],
                              prompt |-> FirstPrompt(topics[i])]
            /\ gp_ret' = gp_ret
    /\ UNCHANGED <<gp_call, not_prompt_vars>>

\* lines 111-112: the condition of the loop holds and a phrase is appended
Elaborate ==
    /\ gp_call # NoCall
    /\ gp_frame.pc = "loop"
    /\ LoopCondition(gp_frame.prompt, gp_frame.input_length).exc = None
    /\ LoopCondition(gp_frame.prompt, gp_frame.input_length).val
    /\ gp_frame' = [gp_frame EXCEPT !.prompt = @ \o Elaboration(gp_frame.topic)]
    /\ UNCHANGED <<gp_call, gp_ret, not_prompt_vars>>

\* lines 111 and 114: the comparison raised, or returned false and the
\* prompt is cut and returned
LoopExit(cond, prompt, input_length) ==
    IF cond.exc # None THEN Raised(cond.exc)
    ELSE Returns(Truncated(prompt, input_length))

ReturnPrompt ==
    /\ gp_call # NoCall
    /\ gp_frame.pc = "loop"
    /\ IF LoopCondition(gp_frame.prompt, gp_frame.input_length).exc # None
       THEN TRUE
       ELSE ~LoopCondition(gp_frame.prompt, gp_frame.input_length).val
    /\ gp_frame' = [gp_frame EXCEPT !.pc = "done"]
    /\ gp_ret' = Some(LoopExit(LoopCondition(gp_frame.prompt,
                                             gp_frame.input_length),
                               gp_frame.prompt, gp_frame.input_length))
    /\ UNCHANGED <<gp_call, not_prompt_vars>>

NextPrompt == GenerateStart \/ Elaborate \/ ReturnPrompt

SpecPrompt == InitPrompt /\ [][NextPrompt]_vars

\* the interpreter goes on running the function
SpecPromptFair == SpecPrompt /\ WF_vars(NextPrompt)

----------------------------------------------------------------------------
(* Properties of generate_prompt, under SpecPrompt and SpecPromptFair *)

\* the "prompt" section of the call's configuration has the key
Configured(key) ==
    /\ "prompt" \in DOMAIN gp_call.o
    /\ gp_call.o.prompt.t = "obj"
    /\ key \in DOMAIN gp_call.o.prompt.o

\* C22: whatever the configuration, generate_prompt raises nothing and
\* returns a string that is not empty.
C22_ReturnsNonEmptyString ==
    gp_ret # None =>
        /\ gp_ret[1].exc = None
        /\ gp_ret[1].val.t = "str"
        /\ gp_ret[1].val.s # ""

\* C23 as claimed: in fixed mode the configured fixed_prompt is what
\* generate_prompt returns, whatever input_length.
C23_FixedModeReturnsFixedPrompt ==
    (/\ gp_ret # None
     /\ Configured("prompt_type")
     /\ gp_call.o.prompt.o.prompt_type = JStr("fixed")
     /\ Configured("fixed_prompt")) =>
        gp_ret[1] = Returns(gp_call.o.prompt.o.fixed_prompt)

\* C23: in fixed mode a configured fixed_prompt that is not empty is what
\* generate_prompt returns, whatever input_length.
C23_FixedModeReturnsNonEmptyFixedPrompt ==
    (/\ gp_ret # None
     /\ Configured("prompt_type")
     /\ gp_call.o.prompt.o.prompt_type = JStr("fixed")
     /\ Configured("fixed_prompt")
     /\ gp_call.o.prompt.o.fixed_prompt.s # "") =>
        gp_ret[1] = Returns(gp_call.o.prompt.o.fixed_prompt)

\* C23 happens: the fixed prompt has twelve characters, input_length is 1,
\* and all twelve are returned.
C23_Witness ==
    /\ gp_ret # None
    /\ Configured("prompt_type")
    /\ Configured("input_length")
    /\ Configured("fixed_prompt")
    /\ gp_call.o.prompt.o.prompt_type = JStr("fixed")
    /\ gp_call.o.prompt.o.input_length = JNum(1)
    /\ gp_ret[1] = Returns(JStr("Hello, world"))

\* the call generates a prompt for a positive integer input_length
GeneratesFor(n) ==
    /\ gp_frame.pc \in {"loop", "done"}
    /\ gp_frame.topic # ""
    /\ gp_frame.input_length = JNum(n)
    /\ n > 0

\* C28: for a positive integer input_length L the loop of a generated
\* prompt ends; when it has ended the prompt has at least 3 * L
\* characters, and what is returned is its first 3 * L characters, 3 * L
\* of them.
C28_LoopEndsWithThreeLCharacters ==
    /\ [](\A n \in 1..(MaxInputLength + 512) :
             (GeneratesFor(n) /\ gp_frame.pc = "done") =>
                 /\ gp_ret # None
                 /\ Len(gp_frame.prompt) >= 3 * n
                 /\ gp_ret[1] = Returns(JStr(SubSeq(gp_frame.prompt, 1, 3 * n)))
                 /\ Len(gp_ret[1].val.s) = 3 * n)
    /\ (\E n \in 1..(MaxInputLength + 512) :
            GeneratesFor(n) /\ gp_frame.pc = "loop")
          ~> (gp_frame.pc = "done")

\* C28 happens: the loop ran more than once and 3 * L characters came back.
C28_Witness ==
    /\ gp_frame.pc = "done"
    /\ gp_frame.topic # ""
    /\ gp_frame.input_length = JNum(MaxInputLength)
    /\ Len(gp_frame.prompt)
           > Len(FirstPrompt(gp_frame.topic)) + Len(Elaboration(gp_frame.topic))
    /\ gp_ret # None
    /\ Len(gp_ret[1].val.s) = 3 * MaxInputLength


----------------------------------------------------------------------------
(* CheckInService, tools/feishu-study-bot/services/checkin_service.py.    *)
(* The database has the tables the service queries: plans (WeeklyPlan:    *)
(* id, week_num), deliverables (Deliverable: id -> is_completed) and      *)
(* checkins (CheckIn, in the order of created_at).  A float is the        *)
(* quotient [num, den]; the hours of the check-ins are quarters of an     *)
(* hour, whose sums floats hold exactly.  The task ids given are          *)
(* numerals, so that int(task_id) raises nothing.                         *)

\* round(x, 1) of x = num / den >= 0: the nearest tenth, a half goes to
\* the even one
Round1(x) ==
    LET t == (10 * x.num) \div x.den
        twice == 2 * (10 * x.num - t * x.den)
    IN [num |-> IF twice < x.den THEN t
                ELSE IF twice > x.den THEN t + 1
                ELSE IF t % 2 = 0 THEN t ELSE t + 1,
        den |-> 10]

\* int(task_id) of a numeral
PyInt(task_id) == CHOOSE n \in 0..9 : ToString(n) = task_id

\* lines 23 and 65: query(WeeklyPlan).filter(week_num == week_num).first()
WeekByNum(plans, week_num) ==
    IF SelectSeq(plans, LAMBDA w : w.week_num = week_num) = << >> THEN None
    ELSE Some(SelectSeq(plans, LAMBDA w : w.week_num = week_num)[1])

\* lines 41-48: the deliverables named are marked completed, those that
\* do not exist are skipped
MarkCompleted(deliverables, completed_tasks) ==
    [d \in DOMAIN deliverables |->
        \/ deliverables[d]
        \/ \E i \in DOMAIN completed_tasks : PyInt(completed_tasks[i]) = d]

\* lines 27-36: the CheckIn row, with the id the database gives it
CheckIn(database, user_id, week, hours_spent, satisfaction, completed_tasks) ==
    [id |-> Len(database.checkins) + 1, user_id |-> user_id,
     week_id |-> week.id, hours_spent |-> hours_spent,
     satisfaction |-> satisfaction, completed_tasks |-> completed_tasks]

\* lines 38-53: the row is added, the deliverables are updated, the
\* session is committed and the row is returned
AddAndCommit(database, checkin) ==
    [exc |-> None, val |-> Some(checkin),
     db |-> [database EXCEPT
               !.checkins = Append(@, checkin),
               !.deliverables = MarkCompleted(@, checkin.completed_tasks)]]

\* create_checkin(user_id, week_num, hours_spent, satisfaction,
\* completed_tasks): the row returned (val) or the exception raised (exc),
\* and the database afterwards.  The message of line 25 says, in Chinese,
\* that the plan of week week_num was not found.
create_checkin(database, user_id, week_num, hours_spent, satisfaction, completed_tasks) ==
    IF WeekByNum(database.plans, week_num) = None
    THEN [exc |-> Some(Exc("ValueError",
                           "no plan of week " \o ToString(week_num))),
          val |-> None, db |-> database]
    ELSE AddAndCommit(database,
                      CheckIn(database, user_id,
                              WeekByNum(database.plans, week_num)[1],
                              hours_spent, satisfaction, completed_tasks))

\* the rows of a user and a week id
RowsOf(checkins, user_id, week_id) ==
    SelectSeq(checkins, LAMBDA c : c.user_id = user_id /\ c.week_id = week_id)

\* mutant of get_week_checkins: the rows are filtered by week_id == week_num
get_week_checkins_by_week_num(database, user_id, week_num) ==
    IF WeekByNum(database.plans, week_num) = None THEN << >>
    ELSE RowsOf(database.checkins, user_id, week_num)

\* lines 63-72: get_week_checkins(user_id, week_num)
get_week_checkins(database, user_id, week_num) ==
    IF WeekByNum(database.plans, week_num) = None THEN << >>
    ELSE RowsOf(database.checkins, user_id,
                WeekByNum(database.plans, week_num)[1].id)

\* sum(c.hours_spent for c in checkins), in quarters of an hour, and
\* sum(c.satisfaction for c in checkins)
RECURSIVE SumQuarters(_, _)
SumQuarters(checkins, i) ==
    IF i > Len(checkins) THEN 0
    ELSE checkins[i].hours_spent.num + SumQuarters(checkins, i + 1)

RECURSIVE SumSatisfaction(_, _)
SumSatisfaction(checkins, i) ==
    IF i > Len(checkins) THEN 0
    ELSE checkins[i].satisfaction + SumSatisfaction(checkins, i + 1)

\* lines 78-96: the statistics of the rows found
WeekStats(checkins) ==
    IF checkins = << >>
    THEN [checkin_days |-> 0, total_hours |-> [num |-> 0, den |-> 1],
          avg_satisfaction |-> [num |-> 0, den |-> 1],
          target_hours |-> 28, target_days |-> 7]
    ELSE [checkin_days |-> Len(checkins),
          total_hours |-> Round1([num |-> SumQuarters(checkins, 1), den |-> 4]),
          avg_satisfaction |-> Round1([num |-> SumSatisfaction(checkins, 1),
                                       den |-> Len(checkins)]),
          target_hours |-> 28, target_days |-> 7]

\* lines 74-96: get_week_stats(user_id, week_num)
get_week_stats(database, user_id, week_num) ==
    WeekStats(get_week_checkins(database, user_id, week_num))

----------------------------------------------------------------------------
(* A session of the check-in service *)

Users == {"test_user", "other_user"}

\* the weeks asked for; week 3 has no plan
Weeks == {1, 2, 3}

WeeklyPlan(id, week_num) == [id |-> id, week_num |-> week_num]

\* the plans in the database: the plan of week 1 alone, or the plans of
\* weeks 2 and 1, entered in that order
PlanTables ==
    {<<WeeklyPlan(1, 1)>>, <<WeeklyPlan(1, 2), WeeklyPlan(2, 1)>>}

Hours(quarters) == [num |-> quarters, den |-> 4]

\* what a check-in reports: 4.0 hours, 0.25 hours with two tasks done (of
\* which one is no deliverable), 4.5 hours
CheckinInputs ==
    {[hours_spent |-> Hours(16), satisfaction |-> 4, completed_tasks |-> << >>],
     [hours_spent |-> Hours(1), satisfaction |-> 5,
      completed_tasks |-> <<"1", "2">>],
     [hours_spent |-> Hours(18), satisfaction |-> 3, completed_tasks |-> << >>]}

InitCheckin ==
    /\ db \in [plans : PlanTables, deliverables : {[d \in {1} |-> FALSE]},
               checkins : {<< >>}]
    /\ ci_ret = None
    /\ ci_hist = << >>
    /\ NoRun
    /\ NoPromptCall

not_checkin_vars ==
    <<sr_call, sr_ret, driver_vars, pm_call, pm_ret, calc_call, calc_ret,
      prompt_vars>>

\* what is kept of a call: the method, its arguments, its outcome
Called(fn, user_id, week_num, exc, val) ==
    [fn |-> fn, user_id |-> user_id, week_num |-> week_num, exc |-> exc,
     val |-> val]

\* the call that returned is added to the history
Recorded(hist, r, user_id, week_num, hours_spent) ==
    IF r.exc # None THEN hist
    ELSE Append(hist, [user_id |-> user_id, week_num |-> week_num,
                       hours_spent |-> hours_spent])

CreateCheckinAs(user_id, week_num, entry, r) ==
    /\ db' = r.db
    /\ ci_ret' = Some(Called("create_checkin", user_id, week_num, r.exc, r.val))
    /\ ci_hist' = Recorded(ci_hist, r, user_id, week_num, entry.hours_spent)

\* service.create_checkin(...)
CreateCheckin ==
    /\ db # NoCall
    /\ Len(db.checkins) < MaxCheckins
    /\ \E user_id \in Users, week_num \in Weeks, entry \in CheckinInputs :
         CreateCheckinAs(user_id, week_num, entry,
                         create_checkin(db, user_id, week_num, entry.hours_spent,
                                        entry.satisfaction, entry.completed_tasks))
    /\ UNCHANGED not_checkin_vars

\* service.get_week_stats(user_id, week_num)
GetWeekStats ==
    /\ db # NoCall
    /\ \E user_id \in Users, week_num \in Weeks :
         ci_ret' = Some(Called("get_week_stats", user_id, week_num, None,
                               get_week_stats(db, user_id, week_num)))
    /\ UNCHANGED <<db, ci_hist, not_checkin_vars>>

NextCheckin == CreateCheckin \/ GetWeekStats

SpecCheckin == InitCheckin /\ [][NextCheckin]_vars

----------------------------------------------------------------------------
(* Properties of the check-in service, under SpecCheckin *)

\* the create_checkin calls that returned, of a user and a week number
CreatedFor(user_id, week_num) ==
    SelectSeq(ci_hist,
              LAMBDA c : c.user_id = user_id /\ c.week_num = week_num)

\* the hours of these calls together, in quarters of an hour
RECURSIVE QuartersOf(_, _)
QuartersOf(hist, i) ==
    IF i > Len(hist) THEN 0
    ELSE hist[i].hours_spent.num + QuartersOf(hist, i + 1)

\* the last call was get_week_stats
StatsReturned == ci_ret # None /\ ci_ret[1].fn = "get_week_stats"

\* the last call was create_checkin for a week number without a plan
CreateWithoutPlan ==
    /\ ci_ret # None
    /\ ci_ret[1].fn = "create_checkin"
    /\ \A i \in DOMAIN db.plans : db.plans[i].week_num # ci_ret[1].week_num

\* the database holds one row for each create_checkin call that returned,
\* and a create_checkin for a week without a plan raised ValueError
OneRowPerCreated ==
    /\ Len(db.checkins) = Len(ci_hist)
    /\ CreateWithoutPlan =>
          /\ ci_ret[1].exc # None
          /\ ci_ret[1].exc[1].cls = "ValueError"

\* the absolute value
Abs(n) == IF n < 0 THEN 0 - n ELSE n

\* the float total is the quotient quarters / 4 rounded to one decimal:
\* a whole number of tenths, at most a twentieth away, the even tenth
\* when two are as near
IsRoundedToOneDecimal(total, quarters) ==
    /\ (10 * total.num) % total.den = 0
    /\ 5 * Abs(4 * total.num - quarters * total.den) <= total.den
    /\ 5 * Abs(4 * total.num - quarters * total.den) = total.den =>
          ((10 * total.num) \div total.den) % 2 = 0

\* C24 as claimed: get_week_stats(user, week) reports as checkin_days the
\* number of create_checkin calls that returned for that user and week,
\* and as total_hours the sum of their hours_spent; a create_checkin for a
\* week without a plan raises ValueError and adds no row.
C24_StatsAreCountAndSum ==
    /\ OneRowPerCreated
    /\ StatsReturned =>
          /\ ci_ret[1].val.checkin_days
                 = Len(CreatedFor(ci_ret[1].user_id, ci_ret[1].week_num))
          /\ 4 * ci_ret[1].val.total_hours.num
                 = QuartersOf(CreatedFor(ci_ret[1].user_id,
                                         ci_ret[1].week_num), 1)
                   * ci_ret[1].val.total_hours.den

\* C24: get_week_stats(user, week) reports as checkin_days the number of
\* create_checkin calls that returned for that user and week, and as
\* total_hours the sum of their hours_spent rounded to one decimal; a
\* create_checkin for a week without a plan raises ValueError and adds no
\* row.
C24_StatsAreCountAndRoundedSum ==
    /\ OneRowPerCreated
    /\ StatsReturned =>
          /\ ci_ret[1].val.checkin_days
                 = Len(CreatedFor(ci_ret[1].user_id, ci_ret[1].week_num))
          /\ IsRoundedToOneDecimal(
                 ci_ret[1].val.total_hours,
                 QuartersOf(CreatedFor(ci_ret[1].user_id,
                                       ci_ret[1].week_num), 1))

\* C24 happens: three check-ins were made, two of them by the user and in
\* the week asked for (4.0 and 0.25 hours; the week's plan has another id
\* than its number), and the statistics count 2 days and 4.2 hours.
C24_Witness ==
    /\ StatsReturned
    /\ Len(ci_hist) = 3
    /\ db.plans = <<WeeklyPlan(1, 2), WeeklyPlan(2, 1)>>
    /\ ci_ret[1].user_id = "test_user"
    /\ ci_ret[1].week_num = 1
    /\ ci_ret[1].val.checkin_days = 2
    /\ ci_ret[1].val.total_hours = [num |-> 42, den |-> 10]

====
